---- MODULE Spec2Model ----
(***************************************************************************)
(* A model of the itsdangerous signing crate: the separator framing, the   *)
(* fixed-size URL-safe base64 codec, the timestamp codec, the Signer and   *)
(* the TimestampSigner.                                                    *)
(*                                                                         *)
(* A `char` is its Unicode code point, a `&str` / `String` is the sequence *)
(* of its chars, and `as_bytes()` is the UTF-8 encoding of that sequence.  *)
(* A u64 is a sequence of 8 bytes, most significant first, so that the     *)
(* arithmetic on seconds keeps its 64-bit width.                           *)
(***************************************************************************)
EXTENDS Integers, Sequences, FiniteSets, TLC

\* ------------------------------------------------------------------------
\* Characters and strings
\* ------------------------------------------------------------------------

\* Separator::default() is '.'; '=', '-' and '_' close BASE64_ALPHABET.
ch_dot   == 46
ch_eq    == 61
ch_dash  == 45
ch_under == 95

\* str::as_bytes of a one-char string: the UTF-8 encoding of a code point
\* (code points below U+0800 are all the model uses).
Utf8(c) ==
    IF c < 128 THEN <<c>>
    ELSE <<192 + (c \div 64), 128 + (c % 64)>>

RECURSIVE AsBytes(_)
AsBytes(s) ==
    IF s = <<>> THEN <<>> ELSE Utf8(Head(s)) \o AsBytes(Tail(s))

\* A sequence of ASCII bytes read back as a string (str::from_utf8 on ASCII).
IsAscii(s) == \A k \in 1..Len(s) : s[k] < 128

Max(a, b) == IF a > b THEN a ELSE b
Min(a, b) == IF a < b THEN a ELSE b

\* ------------------------------------------------------------------------
\* base64.rs: the URL-safe alphabet, encode, decode into a sized buffer
\* ------------------------------------------------------------------------

\* The URL_SAFE character set of the base64 crate: A-Z a-z 0-9 - _
B64Char(k) ==
    IF k < 26 THEN 65 + k
    ELSE IF k < 52 THEN 97 + (k - 26)
    ELSE IF k < 62 THEN 48 + (k - 52)
    ELSE IF k = 62 THEN ch_dash
    ELSE ch_under

\* The crate's decode table: a byte to its 6-bit value, and the table's
\* INVALID_VALUE (255) for every byte outside the character set ('=' included).
B64Index(c) ==
    IF c >= 65 /\ c <= 90 THEN c - 65
    ELSE IF c >= 97 /\ c <= 122 THEN c - 97 + 26
    ELSE IF c >= 48 /\ c <= 57 THEN c - 48 + 52
    ELSE IF c = ch_dash THEN 62
    ELSE IF c = ch_under THEN 63
    ELSE 255

IsSymbol(c) == B64Index(c) < 64

\* BASE64_ALPHABET: the lower-case letters, the upper-case letters, the
\* digits, then '-', '_' and '='.
BASE64_ALPHABET ==
    [k \in 1..26 |-> 96 + k] \o [k \in 1..26 |-> 64 + k]
        \o [k \in 1..10 |-> 47 + k] \o <<ch_dash, ch_under, ch_eq>>

\* A membership test that leaves out the last char of the alphabet, '='.
in_alphabet_unpadded(c) ==
    \E k \in 1..(Len(BASE64_ALPHABET) - 1) : BASE64_ALPHABET[k] = c

\* in_alphabet
in_alphabet(c) == \E k \in 1..Len(BASE64_ALPHABET) : BASE64_ALPHABET[k] = c

\* An encoding under a config that pads: '=' up to a multiple of 4 symbols.
RECURSIVE encode_padded(_)
encode_padded(b) ==
    IF Len(b) = 0 THEN <<>>
    ELSE IF Len(b) = 1 THEN
        <<B64Char(b[1] \div 4), B64Char((b[1] % 4) * 16), ch_eq, ch_eq>>
    ELSE IF Len(b) = 2 THEN
        <<B64Char(b[1] \div 4), B64Char((b[1] % 4) * 16 + (b[2] \div 16)),
          B64Char((b[2] % 16) * 4), ch_eq>>
    ELSE
        <<B64Char(b[1] \div 4), B64Char((b[1] % 4) * 16 + (b[2] \div 16)),
          B64Char((b[2] % 16) * 4 + (b[3] \div 64)), B64Char(b[3] % 64)>>
            \o encode_padded(SubSeq(b, 4, Len(b)))

\* base64::encode_config(_, URL_SAFE_NO_PAD): three bytes give four symbols,
\* one left-over byte two symbols, two left-over bytes three symbols.
RECURSIVE encode(_)
encode(b) ==
    IF Len(b) = 0 THEN <<>>
    ELSE IF Len(b) = 1 THEN
        <<B64Char(b[1] \div 4), B64Char((b[1] % 4) * 16)>>
    ELSE IF Len(b) = 2 THEN
        <<B64Char(b[1] \div 4),
          B64Char((b[1] % 4) * 16 + (b[2] \div 16)),
          B64Char((b[2] % 16) * 4)>>
    ELSE
        <<B64Char(b[1] \div 4),
          B64Char((b[1] % 4) * 16 + (b[2] \div 16)),
          B64Char((b[2] % 16) * 4 + (b[3] \div 64)),
          B64Char(b[3] % 64)>> \o encode(SubSeq(b, 4, Len(b)))

\* Base64Sized::OutputSize, the type-level ((N / 3) * 4) + (N % 3) + Min(N % 3, 1)
OutputSize(n) == ((n \div 3) * 4) + ((n % 3) + Min(n % 3, 1))

\* ------------------------------------------------------------------------
\* base64::decode_config_slice(input, URL_SAFE_NO_PAD, &mut array) on an
\* array of `cap` bytes.  The crate decodes the input in order, in chunks of
\* 8 symbols, and indexes the output slice as it goes: a write past the end
\* of the slice panics, an invalid symbol met before that is an Err.
\* The outcome is [kind |-> "ok", bytes], [kind |-> "err", err] or
\* [kind |-> "panic"].
\* ------------------------------------------------------------------------

DecErr(e)  == [kind |-> "err", err |-> e, bytes |-> <<>>]
DecPanic   == [kind |-> "panic", err |-> "slice index out of range", bytes |-> <<>>]
DecOk(b)   == [kind |-> "ok", err |-> "", bytes |-> b]

\* decode_chunk: all 8 symbols of the chunk starting after input[ii] are in
\* the decode table.
ChunkValid(input, ii) == \A k \in 1..8 : IsSymbol(input[ii + k])

\* The 6-bit values of a run of symbols, and the bytes they pack into
\* (the bits left over after the last whole byte are dropped).
MorselBytes(m) ==
    [j \in 1..((Len(m) * 6) \div 8) |->
        LET q == (j - 1) \div 3
            r == (j - 1) % 3
        IN  IF r = 0 THEN m[4 * q + 1] * 4 + (m[4 * q + 2] \div 16)
            ELSE IF r = 1 THEN (m[4 * q + 2] % 16) * 16 + (m[4 * q + 3] \div 4)
            ELSE (m[4 * q + 3] % 4) * 64 + m[4 * q + 4]]

Morsels(s) == [k \in 1..Len(s) |-> B64Index(s[k])]

\* Stage 4, the last (possibly partial, possibly padded) chunk: `left` is
\* what is left of the input.  Gives the number of data symbols, or the
\* error the scan stops at.
RECURSIVE LeftoverScan(_, _, _, _)
LeftoverScan(left, k, morsels, padding) ==
    IF k > Len(left) THEN [err |-> "", morsels |-> morsels]
    ELSE IF left[k] = ch_eq THEN
        IF (k - 1) % 4 < 2 THEN [err |-> "InvalidByte", morsels |-> morsels]
        ELSE LeftoverScan(left, k + 1, morsels, padding + 1)
    ELSE IF padding > 0 THEN [err |-> "InvalidByte", morsels |-> morsels]
    ELSE IF ~IsSymbol(left[k]) THEN [err |-> "InvalidByte", morsels |-> morsels]
    ELSE LeftoverScan(left, k + 1, morsels + 1, padding)

\* A last symbol carrying bits that no output byte takes (the config does
\* not allow trailing bits).
TrailingBits(left, morsels) ==
    IF morsels = 0 THEN FALSE
    ELSE LET last == B64Index(left[morsels])
             spare == (morsels * 6) % 8
         IN  IF spare = 4 THEN last % 16 # 0
             ELSE IF spare = 2 THEN last % 4 # 0
             ELSE FALSE

\* Stage 3: decode_chunk_precise on every remaining chunk but the last.
RECURSIVE DecodeStage3(_, _, _, _, _)
DecodeStage3(input, cap, ii, oi, rc) ==
    IF rc > 1 THEN
        IF oi + 6 > cap THEN DecPanic
        ELSE IF ~ChunkValid(input, ii) THEN DecErr("InvalidByte")
        ELSE DecodeStage3(input, cap, ii + 8, oi + 6, rc - 1)
    ELSE
        LET left == SubSeq(input, ii + 1, Len(input))
            scan == LeftoverScan(left, 1, 0, 0)
            ready == (scan.morsels * 6) \div 8
        IN  IF scan.err # "" THEN DecErr(scan.err)
            ELSE IF TrailingBits(left, scan.morsels) THEN DecErr("InvalidLastSymbol")
            ELSE IF oi + ready > cap THEN DecPanic
            ELSE DecOk(MorselBytes(Morsels(SubSeq(input, 1, ii + scan.morsels))))

\* Stage 2: decode_chunk, 8 symbols to 6 bytes, through an 8-byte window of
\* the output.
RECURSIVE DecodeStage2(_, _, _, _, _, _)
DecodeStage2(input, cap, fast, ii, oi, rc) ==
    IF fast >= 8 /\ ii < fast - 8 THEN
        IF oi + 8 > cap THEN DecPanic
        ELSE IF ~ChunkValid(input, ii) THEN DecErr("InvalidByte")
        ELSE DecodeStage2(input, cap, fast, ii + 8, oi + 6, rc - 1)
    ELSE DecodeStage3(input, cap, ii, oi, rc)

\* Stage 1: blocks of 4 chunks, through a 26-byte window of the output.
RECURSIVE DecodeStage1(_, _, _, _, _, _)
DecodeStage1(input, cap, fast, ii, oi, rc) ==
    IF fast >= 32 /\ ii <= fast - 32 THEN
        IF oi + 26 > cap THEN DecPanic
        ELSE IF \E c \in 0..3 : ~ChunkValid(input, ii + 8 * c) THEN DecErr("InvalidByte")
        ELSE DecodeStage1(input, cap, fast, ii + 32, oi + 24, rc - 4)
    ELSE DecodeStage2(input, cap, fast, ii, oi, rc)

decode_config_slice(input, cap) ==
    LET rem == Len(input) % 8
        skip == IF rem = 0 THEN 8
                ELSE IF rem \in {2, 3, 4} THEN 8 + rem
                ELSE rem
        fast == Max(Len(input) - skip, 0)
        num_chunks == (Len(input) + 7) \div 8
    IN  IF rem \in {1, 5} THEN DecErr("InvalidLength")
        ELSE DecodeStage1(input, cap, fast, 0, 0, num_chunks)

\* base64::decode::<N, _>: a DecodeResult { array, length } over an N-byte
\* array; `bytes` is as_slice(), the first `length` bytes.
decode(input, n) == decode_config_slice(input, n)

\* DecodeResult::into_exact_inner
into_exact_inner(res, n) ==
    IF n # Len(res.bytes) THEN DecErr("InvalidLength") ELSE res

\* ------------------------------------------------------------------------
\* u64 arithmetic on 8 big-endian bytes (std::time seconds)
\* ------------------------------------------------------------------------

\* A number below 2^31 as a u64.
U64(n) ==
    <<0, 0, 0, 0, (n \div 16777216) % 256, (n \div 65536) % 256, (n \div 256) % 256, n % 256>>

ZeroU64 == U64(0)

\* Lexicographic order on equally long byte strings is numeric order.
RECURSIVE BytesLess(_, _)
BytesLess(a, b) ==
    IF a = <<>> THEN FALSE
    ELSE IF Head(a) # Head(b) THEN Head(a) < Head(b)
    ELSE BytesLess(Tail(a), Tail(b))

\* a + b: the wrapped sum and the carry out of the top byte.
RECURSIVE AddBytes(_, _, _)
AddBytes(a, b, carry) ==
    IF a = <<>> THEN [bytes |-> <<>>, carry |-> carry]
    ELSE LET n == Len(a)
             t == a[n] + b[n] + carry
             rest == AddBytes(SubSeq(a, 1, n - 1), SubSeq(b, 1, n - 1), t \div 256)
         IN  [bytes |-> Append(rest.bytes, t % 256), carry |-> rest.carry]

\* a - b: the wrapped difference and the borrow out of the top byte.
RECURSIVE SubBytes(_, _, _)
SubBytes(a, b, borrow) ==
    IF a = <<>> THEN [bytes |-> <<>>, carry |-> borrow]
    ELSE LET n == Len(a)
             t == a[n] - b[n] - borrow
             rest == SubBytes(SubSeq(a, 1, n - 1), SubSeq(b, 1, n - 1), IF t < 0 THEN 1 ELSE 0)
         IN  [bytes |-> Append(rest.bytes, (t + 256) % 256), carry |-> rest.carry]

RECURSIVE StripLeadingZeros(_)
StripLeadingZeros(b) ==
    IF b # <<>> /\ Head(b) = 0 THEN StripLeadingZeros(Tail(b)) ELSE b

\* ------------------------------------------------------------------------
\* timestamp.rs
\* ------------------------------------------------------------------------

LEGACY_EPOCH == 1293840000

\* The outcome of a call: Ok, Err or a panic.  Every outcome has the same
\* fields; a field a variant does not carry is empty.
Outcome(kind, variant, value, signature, timestamp) ==
    [kind |-> kind, variant |-> variant, value |-> value,
     signature |-> signature, timestamp |-> timestamp, max_age |-> <<>>,
     error |-> ""]
Panic(why) == Outcome("panic", why, <<>>, <<>>, <<>>)
NoOutcome == Outcome("none", "", <<>>, <<>>, <<>>)

\* An encode that keeps the leading zero bytes.
timestamp_encode_unstripped(secs, overflow_checks) ==
    LET delta == SubBytes(secs, U64(LEGACY_EPOCH), 0)
    IN  IF delta.carry = 1 /\ overflow_checks
        THEN Panic("attempt to subtract with overflow")
        ELSE Outcome("ok", "", encode(delta.bytes), <<>>, <<>>)

\* timestamp::encode of a SystemTime `secs` whole seconds after UNIX_EPOCH.
\* The u64 subtraction panics under overflow checks (a debug build) and
\* wraps without them (a release build).
timestamp_encode(secs, overflow_checks) ==
    LET delta == SubBytes(secs, U64(LEGACY_EPOCH), 0)
    IN  IF delta.carry = 1 /\ overflow_checks
        THEN Panic("attempt to subtract with overflow")
        ELSE Outcome("ok", "", encode(StripLeadingZeros(delta.bytes)), <<>>, <<>>)

\* A decode that takes the seconds as counted from UNIX_EPOCH.
timestamp_decode_unshifted(timestamp, overflow_checks) ==
    LET dec == decode(AsBytes(timestamp), 8)
        padded == [k \in 1..(8 - Len(dec.bytes)) |-> 0] \o dec.bytes
    IN  IF dec.kind = "panic" THEN Panic(dec.err)
        ELSE IF dec.kind = "err" \/ padded[1] >= 128
        THEN Outcome("err", "TimestampInvalid", <<>>, <<>>, timestamp)
        ELSE Outcome("ok", "", <<>>, <<>>, padded)

\* timestamp::decode of the timestamp segment of a token.
timestamp_decode(timestamp, overflow_checks) ==
    LET dec == decode(AsBytes(timestamp), 8)
        padded == [k \in 1..(8 - Len(dec.bytes)) |-> 0] \o dec.bytes
        sum == AddBytes(padded, U64(LEGACY_EPOCH), 0)
    IN  IF dec.kind = "panic" THEN Panic(dec.err)
        ELSE IF dec.kind = "err"
        THEN Outcome("err", "TimestampInvalid", <<>>, <<>>, timestamp)
        ELSE IF sum.carry = 1 /\ overflow_checks
        THEN Panic("attempt to add with overflow")
        \* UNIX_EPOCH.checked_add: the seconds must fit the signed 64-bit time
        ELSE IF sum.bytes[1] >= 128
        THEN Outcome("err", "TimestampInvalid", <<>>, <<>>, timestamp)
        ELSE Outcome("ok", "", <<>>, <<>>, sum.bytes)

\* ------------------------------------------------------------------------
\* key_derivation.rs and algorithm.rs.  The digest and the keyed MAC are
\* the cryptographic primitives the crate composes: a digest is the term
\* of its input, and a MAC tag is a one-to-one image of (key, message) in
\* OutputSize bytes, one-to-one as long as the message has at most
\* MacWidth bytes.
\* ------------------------------------------------------------------------

STR_signer == <<115, 105, 103, 110, 101, 114>>                \* "signer"

\* Hmac::new_varkey pads a short key with zero bytes to the block size.
RECURSIVE StripTrailingZeros(_)
StripTrailingZeros(b) ==
    IF b # <<>> /\ b[Len(b)] = 0 THEN StripTrailingZeros(SubSeq(b, 1, Len(b) - 1)) ELSE b

\* A derivation that leaves the salt out of the digest.
derive_key_unsalted(kd, secret_key, salt) ==
    IF kd = "Concat" THEN <<"digest", AsBytes(secret_key)>>
    ELSE IF kd = "DjangoConcat" THEN <<"digest", STR_signer \o AsBytes(secret_key)>>
    ELSE <<"hmac", StripTrailingZeros(AsBytes(secret_key)), <<>>>>

derive_key(kd, secret_key, salt) ==
    IF kd = "Concat" THEN <<"digest", AsBytes(salt) \o AsBytes(secret_key)>>
    ELSE IF kd = "DjangoConcat"
    THEN <<"digest", AsBytes(salt) \o STR_signer \o AsBytes(secret_key)>>
    ELSE <<"hmac", StripTrailingZeros(AsBytes(secret_key)), AsBytes(salt)>>

\* Sha1's output size, the digest of default_builder.
Sha1OutputSize == 20
MacWidth == Sha1OutputSize - 2

\* The keys a model run can hold, to tell them apart in one byte of the tag.
STR_hello == <<104, 101, 108, 108, 111>>                      \* "hello"
STR_world == <<119, 111, 114, 108, 100>>                      \* "world"
DEFAULT_SALT ==                                               \* "itsdangerous.Signer"
    <<105, 116, 115, 100, 97, 110, 103, 101, 114, 111, 117, 115, 46,
      83, 105, 103, 110, 101, 114>>
STR_salt == <<115, 97, 108, 116>>                             \* "salt"

SecretKeySeq == <<STR_hello, STR_world>>
SaltSeq == <<DEFAULT_SALT, STR_salt>>
KeyDerivationSeq == <<"DjangoConcat">>

SecretKeys == {SecretKeySeq[k] : k \in 1..Len(SecretKeySeq)}
Salts == {SaltSeq[k] : k \in 1..Len(SaltSeq)}
KeyDerivations == {KeyDerivationSeq[k] : k \in 1..Len(KeyDerivationSeq)}

\* The key derivations of key_derivation.rs, and the secret keys with one
\* more: "hello" followed by a NUL.
STR_hello0 == STR_hello \o <<0>>
NamespaceKeyDerivationSeq == KeyDerivationSeq \o <<"Concat", "Hmac">>
NamespaceKeySeq == SecretKeySeq \o <<STR_hello0>>
NamespaceKeyDerivations ==
    {NamespaceKeyDerivationSeq[k] : k \in 1..Len(NamespaceKeyDerivationSeq)}
NamespaceKeys == {NamespaceKeySeq[k] : k \in 1..Len(NamespaceKeySeq)}

DerivedKeySeq ==
    [n \in 1..(Len(NamespaceKeyDerivationSeq) * Len(NamespaceKeySeq) * Len(SaltSeq)) |->
        LET per == Len(NamespaceKeySeq) * Len(SaltSeq)
            d == ((n - 1) \div per) + 1
            k == (((n - 1) % per) \div Len(SaltSeq)) + 1
            t == ((n - 1) % Len(SaltSeq)) + 1
        IN  derive_key(NamespaceKeyDerivationSeq[d], NamespaceKeySeq[k], SaltSeq[t])]

KeyTag(key) ==
    CHOOSE n \in 1..Len(DerivedKeySeq) :
        /\ DerivedKeySeq[n] = key
        /\ \A m \in 1..(n - 1) : DerivedKeySeq[m] # key

RECURSIVE FoldAt(_, _)
FoldAt(data, k) == IF k > Len(data) THEN 0 ELSE data[k] + FoldAt(data, k + MacWidth)

\* Hmac<Sha1> over the bytes fed to it, as a tag of Sha1OutputSize bytes.
HmacTag(key, data) ==
    <<KeyTag(key), Len(data) % 256>> \o [k \in 1..MacWidth |-> FoldAt(data, k) % 256]

\* algorithm::Signer: new, input (input_chained), sign
AlgNew(alg, key) == [alg |-> alg, key |-> key, data |-> <<>>]

input_chained(signer, bytes) ==
    IF signer.alg = "None" THEN signer
    ELSE [signer EXCEPT !.data = @ \o bytes]

\* A sign that computes the HMAC for the NoneSigner too.
AlgSign_keyed(signer) == HmacTag(signer.key, signer.data)

\* algorithm::Signer::sign: arr![u8; ] for the NoneSigner
AlgSign(signer) ==
    IF signer.alg = "None" THEN <<>> ELSE HmacTag(signer.key, signer.data)

\* SigningAlgorithm::OutputSize
AlgOutputSize(alg) == IF alg = "None" THEN 0 ELSE Sha1OutputSize

\* SigningAlgorithm::get_signature
get_signature(alg, key, value) == AlgSign(input_chained(AlgNew(alg, key), value))

\* A comparison that stops at the first pair of bytes that differ.
RECURSIVE early_exit_eq(_, _, _, _)
early_exit_eq(a, b, k, acc) ==
    IF k > Len(a) THEN [eq |-> acc, reads |-> k - 1]
    ELSE IF a[k] # b[k] THEN [eq |-> FALSE, reads |-> k]
    ELSE early_exit_eq(a, b, k + 1, acc)

\* MacResult's comparison of two codes of one size (crypto-mac, through
\* subtle's ct_eq): every pair of bytes from the k-th on is read and folded
\* into `acc`, and no pair ends the loop.  `reads` counts the pairs read.
RECURSIVE ct_eq(_, _, _, _)
ct_eq(a, b, k, acc) ==
    IF k > Len(a) THEN [eq |-> acc, reads |-> k - 1]
    ELSE ct_eq(a, b, k + 1, acc /\ a[k] = b[k])

\* PartialEq for Signature: MacResult's comparison of the two codes
SignatureEq(a, b) == ct_eq(a, b, 1, TRUE).eq

\* ------------------------------------------------------------------------
\* separator.rs
\* ------------------------------------------------------------------------

\* Separator::new
Separator_new(c) ==
    IF in_alphabet(c) THEN Outcome("err", "InvalidSeparator", <<c>>, <<>>, <<>>)
    ELSE Outcome("ok", "", <<c>>, <<>>, <<>>)

\* The places of `c` in `s`.
Occurrences(s, c) == {k \in 1..Len(s) : s[k] = c}

SetMax(S) == CHOOSE x \in S : \A y \in S : y <= x
SetMin(S) == CHOOSE x \in S : \A y \in S : x <= y

\* A split at the first separator, where the code splits at the last.
split_at_first(s, c) == SetMin(Occurrences(s, c))

\* value.rsplitn(2, sep): the part after the last separator comes first.
rsplit_at(s, c) == SetMax(Occurrences(s, c))

\* A split that looks for the separator from the left (splitn for rsplitn).
split_from_left(sep, value) ==
    IF Occurrences(value, sep) = {}
    THEN [found |-> FALSE, first |-> <<>>, second |-> <<>>]
    ELSE LET at == split_at_first(value, sep)
         IN  [found |-> TRUE,
              first |-> SubSeq(value, 1, at - 1),
              second |-> SubSeq(value, at + 1, Len(value))]

\* Separator::split
split(sep, value) ==
    IF Occurrences(value, sep) = {}
    THEN [found |-> FALSE, first |-> <<>>, second |-> <<>>]
    ELSE LET at == rsplit_at(value, sep)
         IN  [found |-> TRUE,
              first |-> SubSeq(value, 1, at - 1),
              second |-> SubSeq(value, at + 1, Len(value))]

\* ------------------------------------------------------------------------
\* signer.rs: a Signer is [derived_key, seperator, alg]
\* ------------------------------------------------------------------------

\* SignerBuilder::build
build(b) ==
    [derived_key |-> derive_key(b.kd, b.secret_key, b.salt),
     seperator |-> b.seperator,
     alg |-> b.alg]

\* A sign that takes the MAC of the output after the separator is pushed.
sign_after_push(signer, value) ==
    value \o <<signer.seperator>>
          \o encode(get_signature(signer.alg, signer.derived_key,
                                  AsBytes(value \o <<signer.seperator>>)))

\* Signer::sign
sign(signer, value) ==
    value \o <<signer.seperator>>
          \o encode(get_signature(signer.alg, signer.derived_key, AsBytes(value)))

\* A decode_signature that unwraps the decoding where the code uses `?`.
decode_signature_unwrap(signer, encoded_signature) ==
    LET n == AlgOutputSize(signer.alg)
        dec == decode(encoded_signature, n)
    IN  IF dec.kind = "ok" THEN into_exact_inner(dec, n) ELSE DecPanic

\* Signer::decode_signature
decode_signature(signer, encoded_signature) ==
    LET n == AlgOutputSize(signer.alg)
        dec == decode(encoded_signature, n)
    IN  IF dec.kind = "ok" THEN into_exact_inner(dec, n) ELSE dec

\* A comparison that leaves out the last byte of the two signatures.
verify_signature_but_last(signer, value, expected_signature) ==
    LET computed == get_signature(signer.alg, signer.derived_key, value)
    IN  SubSeq(expected_signature, 1, Len(expected_signature) - 1)
            = SubSeq(computed, 1, Len(computed) - 1)

\* Signer::verify_signature
verify_signature(signer, value, expected_signature) ==
    SignatureEq(expected_signature, get_signature(signer.alg, signer.derived_key, value))

\* Signer::verify_encoded_signature: "true", "false", or "panic" when the
\* decoding of the signature panics.
verify_encoded_signature(signer, value, encoded_signature) ==
    LET dec == decode_signature(signer, encoded_signature)
    IN  IF dec.kind = "panic" THEN "panic"
        ELSE IF dec.kind = "err" THEN "false"
        ELSE IF verify_signature(signer, value, dec.bytes) THEN "true"
        ELSE "false"

\* The pairs of bytes the comparison of verify_signature reads, given the
\* decoded signature: none when the signature does not decode.
signature_reads(signer, value, dec) ==
    IF dec.kind # "ok" THEN <<>>
    ELSE <<ct_eq(dec.bytes, get_signature(signer.alg, signer.derived_key, value), 1, TRUE).reads>>

\* The pairs of bytes Signer::unsign(input) compares.
unsign_reads(signer, input) ==
    IF ~split(signer.seperator, input).found THEN <<>>
    ELSE signature_reads(signer, AsBytes(split(signer.seperator, input).first),
                         decode_signature(signer, AsBytes(split(signer.seperator, input).second)))

\* Signer::unsign
unsign(signer, input) ==
    LET sp == split(signer.seperator, input)
        verdict == verify_encoded_signature(signer, AsBytes(sp.first), AsBytes(sp.second))
    IN  IF ~sp.found
        THEN Outcome("err", "SeparatorNotFound", <<signer.seperator>>, <<>>, <<>>)
        ELSE IF verdict = "panic" THEN Panic("slice index out of range")
        ELSE IF verdict = "true" THEN Outcome("ok", "", sp.first, <<>>, <<>>)
        ELSE Outcome("err", "SignatureMismatch", sp.first, sp.second, <<>>)

\* ------------------------------------------------------------------------
\* error.rs and timed.rs: the TimestampSigner wraps the Signer
\* ------------------------------------------------------------------------

\* A with_signer that wraps a signer of the default key and salt.
with_signer_rederived(signer) ==
    <<[signer EXCEPT !.derived_key = derive_key("DjangoConcat", STR_hello, DEFAULT_SALT)]>>

\* TimestampSigner::with_signer: the tuple struct TimestampSigner(signer)
with_signer(signer) == <<signer>>

\* Signer::into_timestamp_signer
into_timestamp_signer(signer) == with_signer(signer)

\* TimestampSigner::as_signer: &self.0
as_signer(ts) == ts[1]

\* From<BadSignature> for BadTimedSignature
BadTimedSignature_from(e) ==
    IF e.variant = "SeparatorNotFound"
    THEN Outcome("err", "SeparatorNotFound", e.value, <<>>, <<>>)
    ELSE IF e.variant = "SignatureMismatch"
    THEN Outcome("err", "SignatureMismatch", e.value, e.signature, <<>>)
    ELSE Outcome("err", "PayloadInvalid", e.value, e.signature, <<>>)

\* `seperator as u8`: a char cast to u8 keeps its low 8 bits
as_u8(c) == c % 256

\* The bytes sign_with_timestamp feeds to the MAC.
timed_mac_input(signer, value, encoded_timestamp) ==
    input_chained(
        input_chained(
            input_chained(AlgNew(signer.alg, signer.derived_key), AsBytes(value)),
            <<as_u8(signer.seperator)>>),
        encoded_timestamp)

\* TimestampSigner::sign_with_timestamp
sign_with_timestamp(signer, value, secs, overflow_checks) ==
    LET enc == timestamp_encode(secs, overflow_checks)
        signature == AlgSign(timed_mac_input(signer, value, enc.value))
    IN  IF enc.kind = "panic" THEN enc
        ELSE Outcome("ok", "",
                     value \o <<signer.seperator>> \o enc.value
                           \o <<signer.seperator>> \o encode(signature),
                     <<>>, <<>>)

\* TimestampSigner::split
timed_split(signer, value) ==
    LET sp == split(signer.seperator, value)
    IN  IF sp.found THEN Outcome("ok", "", sp.first, <<>>, sp.second)
        ELSE Outcome("err", "TimestampMissing", value, <<>>, <<>>)

\* TimestampSigner::unsign: an UnsignedValue { value, timestamp } or an error
timed_unsign(signer, input, overflow_checks) ==
    LET inner == unsign(signer, input)
        sp == timed_split(signer, inner.value)
        ts == timestamp_decode(sp.timestamp, overflow_checks)
    IN  IF inner.kind = "panic" THEN inner
        ELSE IF inner.kind = "err" THEN BadTimedSignature_from(inner)
        ELSE IF sp.kind = "err" THEN sp
        ELSE IF ts.kind # "ok" THEN ts
        ELSE Outcome("ok", "", sp.value, <<>>, ts.timestamp)

\* SystemTime::elapsed: now - timestamp, an Err when the timestamp is later
\* than now.  Times and durations are whole seconds as u64.
elapsed(timestamp, now) ==
    IF BytesLess(now, timestamp) THEN [ok |-> FALSE, duration |-> ZeroU64]
    ELSE [ok |-> TRUE, duration |-> SubBytes(now, timestamp, 0).bytes]

\* An expiry check that compares with >= where the code compares with >.
value_if_not_expired_at_age(unsigned, max_age, now) ==
    LET e == elapsed(unsigned.timestamp, now)
    IN  IF e.ok /\ ~BytesLess(e.duration, max_age)
        THEN [Outcome("err", "TimestampExpired", unsigned.value, <<>>, unsigned.timestamp)
                EXCEPT !.max_age = max_age]
        ELSE Outcome("ok", "", unsigned.value, <<>>, <<>>)

\* UnsignedValue::value_if_not_expired
value_if_not_expired(unsigned, max_age, now) ==
    LET e == elapsed(unsigned.timestamp, now)
    IN  IF e.ok /\ BytesLess(max_age, e.duration)
        THEN [Outcome("err", "TimestampExpired", unsigned.value, <<>>, unsigned.timestamp)
                EXCEPT !.max_age = max_age]
        ELSE Outcome("ok", "", unsigned.value, <<>>, <<>>)

\* UnsignedTimedSerializerValue::value_if_not_expired (serde_serializer.rs)
serializer_value_if_not_expired(unsigned, max_age, now) ==
    LET e == elapsed(unsigned.timestamp, now)
    IN  IF e.ok /\ BytesLess(max_age, e.duration)
        THEN [Outcome("err", "TimestampExpired", unsigned.value, <<>>, unsigned.timestamp)
                EXCEPT !.max_age = max_age]
        ELSE Outcome("ok", "", unsigned.value, <<>>, <<>>)

\* ------------------------------------------------------------------------
\* serde_serializer.rs: a Serializer is a Signer and an Encoding.  A value
\* is a String or a u64; serde_json writes it as JSON text and reads JSON
\* text back as a requested type.
\* ------------------------------------------------------------------------

ch_quote == 34
ch_backslash == 92

JString(s) == [type |-> "String", str |-> s, num |-> 0]
JNumber(n) == [type |-> "u64", str |-> <<>>, num |-> n]

RECURSIVE Digits(_)
Digits(n) == IF n < 10 THEN <<48 + n>> ELSE Digits(n \div 10) \o <<48 + (n % 10)>>

\* The escapes serde_json writes for the chars of a string that is free of
\* control characters.
RECURSIVE JsonEscape(_)
JsonEscape(s) ==
    IF s = <<>> THEN <<>>
    ELSE (IF Head(s) \in {ch_quote, ch_backslash} THEN <<ch_backslash, Head(s)>>
          ELSE <<Head(s)>>) \o JsonEscape(Tail(s))

\* serde_json::to_string(value)
to_string(v) ==
    IF v.type = "String" THEN <<ch_quote>> \o JsonEscape(v.str) \o <<ch_quote>>
    ELSE Digits(v.num)

JsonWhitespace == {32, 9, 10, 13}

RECURSIVE TrimLeft(_)
TrimLeft(t) ==
    IF t # <<>> /\ Head(t) \in JsonWhitespace THEN TrimLeft(Tail(t)) ELSE t

RECURSIVE TrimRight(_)
TrimRight(t) ==
    IF t # <<>> /\ t[Len(t)] \in JsonWhitespace
    THEN TrimRight(SubSeq(t, 1, Len(t) - 1)) ELSE t

\* The char a one-letter escape stands for, 0 if there is none (\u escapes
\* are in no text the model reads).
Unescaped(c) ==
    IF c \in {ch_quote, ch_backslash, 47} THEN c
    ELSE IF c = 98 THEN 8
    ELSE IF c = 102 THEN 12
    ELSE IF c = 110 THEN 10
    ELSE IF c = 114 THEN 13
    ELSE IF c = 116 THEN 9
    ELSE 0

\* The chars of a JSON string from position k, after the opening quote, up
\* to the closing quote, which must end the text; a final -1 marks text
\* that is not a JSON string.
RECURSIVE ParseChars(_, _)
ParseChars(t, k) ==
    IF k > Len(t) THEN <<-1>>
    ELSE IF t[k] = ch_quote THEN (IF k = Len(t) THEN <<>> ELSE <<-1>>)
    ELSE IF t[k] < 32 THEN <<-1>>
    ELSE IF t[k] = ch_backslash
    THEN IF k + 1 > Len(t) \/ Unescaped(t[k + 1]) = 0 THEN <<-1>>
         ELSE <<Unescaped(t[k + 1])>> \o ParseChars(t, k + 2)
    ELSE <<t[k]>> \o ParseChars(t, k + 1)

Malformed(parsed) == parsed # <<>> /\ parsed[Len(parsed)] = -1

RECURSIVE DigitsValue(_)
DigitsValue(t) ==
    IF t = <<>> THEN 0 ELSE DigitsValue(SubSeq(t, 1, Len(t) - 1)) * 10 + (t[Len(t)] - 48)

\* serde_json::from_str::<T>(text), T one of String and u64
from_str(T, text) ==
    LET t == TrimRight(TrimLeft(text))
        fail == [ok |-> FALSE, value |-> JString(<<>>)]
    IN  IF t = <<>> THEN fail
        ELSE IF T = "String"
        THEN IF t[1] # ch_quote THEN fail
             ELSE LET parsed == ParseChars(t, 2)
                  IN  IF Malformed(parsed) THEN fail
                      ELSE [ok |-> TRUE, value |-> JString(parsed)]
        ELSE IF /\ \A k \in 1..Len(t) : t[k] \in 48..57
                /\ (t[1] = 48 => Len(t) = 1)
        THEN [ok |-> TRUE, value |-> JNumber(DigitsValue(t))]
        ELSE fail

\* The code points of UTF-8 bytes; a final -1 marks bytes that are not
\* well-formed UTF-8.
Continues(b, k) == k <= Len(b) /\ b[k] \in 128..191

RECURSIVE Utf8Chars(_)
Utf8Chars(b) ==
    LET c2 == (b[1] - 192) * 64 + (b[2] - 128)
        c3 == (b[1] - 224) * 4096 + (b[2] - 128) * 64 + (b[3] - 128)
        c4 == (b[1] - 240) * 262144 + (b[2] - 128) * 4096 + (b[3] - 128) * 64
                  + (b[4] - 128)
    IN  IF b = <<>> THEN <<>>
        ELSE IF b[1] < 128 THEN <<b[1]>> \o Utf8Chars(SubSeq(b, 2, Len(b)))
        ELSE IF b[1] \in 194..223 /\ Continues(b, 2)
        THEN <<c2>> \o Utf8Chars(SubSeq(b, 3, Len(b)))
        ELSE IF /\ b[1] \in 224..239 /\ Continues(b, 2) /\ Continues(b, 3)
                /\ c3 >= 2048 /\ c3 \notin 55296..57343
        THEN <<c3>> \o Utf8Chars(SubSeq(b, 4, Len(b)))
        ELSE IF /\ b[1] \in 240..244 /\ Continues(b, 2) /\ Continues(b, 3) /\ Continues(b, 4)
                /\ c4 \in 65536..1114111
        THEN <<c4>> \o Utf8Chars(SubSeq(b, 5, Len(b)))
        ELSE <<-1>>

\* String::from_utf8
from_utf8(b) ==
    LET chars == Utf8Chars(b)
    IN  IF Malformed(chars) THEN [ok |-> FALSE, str |-> <<>>]
        ELSE [ok |-> TRUE, str |-> chars]

\* base64::decode_str: base64::decode_config into a Vec the crate sizes
\* itself, 6 bytes for every 8 symbols begun
decode_str(input) == decode_config_slice(input, ((Len(input) + 7) \div 8) * 6)

Encodings == {"NullEncoding", "URLSafeEncoding"}

\* Encoding::encode
Encoding_encode(encoding, serialized_input) ==
    IF encoding = "NullEncoding" THEN serialized_input
    ELSE encode(AsBytes(serialized_input))

\* Encoding::decode: Ok(String) or Err(PayloadError)
Encoding_decode(encoding, encoded_input) ==
    LET decoded == decode_str(AsBytes(encoded_input))
        text == from_utf8(decoded.bytes)
    IN  IF encoding = "NullEncoding"
        THEN [kind |-> "ok", value |-> encoded_input, error |-> ""]
        ELSE IF decoded.kind = "panic"
        THEN [kind |-> "panic", value |-> <<>>, error |-> decoded.err]
        ELSE IF decoded.kind = "err"
        THEN [kind |-> "err", value |-> <<>>, error |-> "Base64"]
        ELSE IF ~text.ok THEN [kind |-> "err", value |-> <<>>, error |-> "Utf8Error"]
        ELSE [kind |-> "ok", value |-> text.str, error |-> ""]

\* BadSignature::PayloadInvalid { value, error }
PayloadInvalid(value, error) ==
    [Outcome("err", "PayloadInvalid", value, <<>>, <<>>) EXCEPT !.error = error]

\* The `?` operator on the Result a call returned: an Err (or a panic)
\* leaves the caller at once, an Ok goes on to `next`.
Try(res, next) == IF res.kind # "ok" THEN res ELSE next

\* serde_json::from_str(&decoded).map_err(PayloadInvalid { value, .. })
parse_payload(T, value, decoded) ==
    LET parsed == from_str(T, decoded)
    IN  IF parsed.ok THEN Outcome("ok", "", parsed.value, <<>>, <<>>)
        ELSE PayloadInvalid(value, "Serde")

\* encoding.decode(value).map_err(PayloadInvalid { value, .. }), given what
\* Encoding::decode returned
decoded_payload(value, decoded) ==
    IF decoded.kind = "panic" THEN Panic(decoded.error)
    ELSE IF decoded.kind = "err" THEN PayloadInvalid(value, decoded.error)
    ELSE Outcome("ok", "", decoded.value, <<>>, <<>>)

\* The rest of deserialize once the payload is decoded.
deserialize_decoded(T, value, decoded) ==
    Try(decoded, parse_payload(T, value, decoded.value))

\* deserialize::<T>(value, encoding)
deserialize(T, value, encoding) ==
    deserialize_decoded(T, value, decoded_payload(value, Encoding_decode(encoding, value)))

\* serializer_with_signer(signer, encoding)
serializer_with_signer(signer, encoding) == [signer |-> signer, encoding |-> encoding]

\* <SerializerImpl as Serializer>::sign
Serializer_sign(serializer, value) ==
    sign(serializer.signer, Encoding_encode(serializer.encoding, to_string(value)))

\* The rest of Serializer::unsign once the signer has answered.
deserialize_unsigned(T, value, encoding) ==
    Try(value, deserialize(T, value.value, encoding))

\* <SerializerImpl as Serializer>::unsign::<T>
Serializer_unsign(serializer, T, input) ==
    deserialize_unsigned(T, unsign(serializer.signer, input), serializer.encoding)

\* The rest of unsign_to_string once the signer has answered.
decode_unsigned(value, encoding) ==
    Try(value, decoded_payload(value.value, Encoding_decode(encoding, value.value)))

\* <SerializerImpl as UnsignToString>::unsign_to_string
unsign_to_string(serializer, input) ==
    decode_unsigned(unsign(serializer.signer, input), serializer.encoding)

\* <TimedSerializerImpl as TimedSerializer>::sign_with_timestamp
TimedSerializer_sign_with_timestamp(serializer, value, secs, overflow_checks) ==
    sign_with_timestamp(serializer.signer,
                        Encoding_encode(serializer.encoding, to_string(value)),
                        secs, overflow_checks)

\* UnsignedTimedSerializerValue { value, timestamp }, or the error of
\* deserialize as a BadTimedSignature
timed_value(deserialized_value, timestamp) ==
    IF deserialized_value.kind = "panic" THEN deserialized_value
    ELSE IF deserialized_value.kind = "err" THEN BadTimedSignature_from(deserialized_value)
    ELSE Outcome("ok", "", deserialized_value.value, <<>>, timestamp)

\* The rest of TimedSerializer::unsign once the signer has answered.
deserialize_timed(T, value, encoding) ==
    Try(value, timed_value(deserialize(T, value.value, encoding), value.timestamp))

\* <TimedSerializerImpl as TimedSerializer>::unsign::<T>
TimedSerializer_unsign(serializer, T, input, overflow_checks) ==
    deserialize_timed(T, timed_unsign(serializer.signer, input, overflow_checks),
                      serializer.encoding)

\* UnverifiedValue { unverified_value, unverified_raw_value, unverified_signature },
\* or the error of deserialize
unverified_of(unverified_value, unverified_raw_value, unverified_signature) ==
    IF unverified_value.kind # "ok" THEN unverified_value
    ELSE [kind |-> "ok", unverified_value |-> unverified_value.value,
          unverified_raw_value |-> unverified_raw_value,
          unverified_signature |-> unverified_signature]

\* UnverifiedValue::<T>::from_str(separator, encoding, input)
UnverifiedValue_from_str(T, separator, encoding, input) ==
    IF ~split(separator, input).found
    THEN Outcome("err", "SeparatorNotFound", <<separator>>, <<>>, <<>>)
    ELSE unverified_of(deserialize(T, split(separator, input).first, encoding),
                       split(separator, input).first, split(separator, input).second)

\* What verify returns, given the verdict of verify_encoded_signature.
verified(self, verdict) ==
    IF verdict = "panic" THEN Panic("slice index out of range")
    ELSE IF verdict = "true" THEN Outcome("ok", "", self.unverified_value, <<>>, <<>>)
    ELSE Outcome("err", "SignatureMismatch", self.unverified_raw_value,
                 self.unverified_signature, <<>>)

\* UnverifiedValue::verify(signer)
UnverifiedValue_verify(self, signer) ==
    verified(self, verify_encoded_signature(signer, AsBytes(self.unverified_raw_value),
                                            AsBytes(self.unverified_signature)))

\* ------------------------------------------------------------------------
\* multi_serializer.rs: a primary serializer and fallbacks in the order
\* they were added.  Each operation returns, next to its result, the
\* serializers it invoked: 0 for the primary, k for the k-th fallback.
\* ------------------------------------------------------------------------

\* MultiSerializer::new(primary_serializer)
MultiSerializer_new(primary_serializer) ==
    [primary |-> primary_serializer, fallbacks |-> <<>>]

\* MultiSerializer::add_fallback(fallback_serializer)
add_fallback(m, fallback_serializer) ==
    [m EXCEPT !.fallbacks = Append(@, fallback_serializer)]

\* A sign that hands the value to the fallback added last.
MultiSerializer_sign_newest(m, value) ==
    LET n == Len(m.fallbacks)
        serializer == IF n = 0 THEN m.primary ELSE m.fallbacks[n]
    IN  [result |-> Outcome("ok", "", Serializer_sign(serializer, value), <<>>, <<>>),
         calls |-> <<n>>]

\* <MultiSerializer as Serializer>::sign
MultiSerializer_sign(m, value) ==
    [result |-> Outcome("ok", "", Serializer_sign(m.primary, value), <<>>, <<>>),
     calls |-> <<0>>]

\* A loop that goes on to the next fallback when the string of a fallback
\* does not deserialize.
unsign_fallbacks_retrying(n, T, value, unsigned, primary_serializer_error) ==
    LET leaving == {k \in 1..n :
                       \/ unsigned[k].kind = "panic"
                       \/ unsigned[k].kind = "ok" /\ from_str(T, unsigned[k].value).ok}
        k == SetMin(leaving)
    IN  IF leaving = {}
        THEN [result |-> primary_serializer_error, calls |-> [i \in 1..n |-> i]]
        ELSE [result |-> Try(unsigned[k], parse_payload(T, value, unsigned[k].value)),
              calls |-> [i \in 1..k |-> i]]

\* The `for serializer in &self.fallback_serializers` loop of unsign, given
\* what unsign_to_string of each fallback returns: the loop leaves at the
\* first fallback that returns Ok (or panics), and runs to the end of the
\* list if there is none.
unsign_fallbacks(n, T, value, unsigned, primary_serializer_error) ==
    LET leaving == {k \in 1..n : unsigned[k].kind \in {"ok", "panic"}}
        k == SetMin(leaving)
    IN  IF leaving = {}
        THEN [result |-> primary_serializer_error, calls |-> [i \in 1..n |-> i]]
        ELSE [result |-> Try(unsigned[k], parse_payload(T, value, unsigned[k].value)),
              calls |-> [i \in 1..k |-> i]]

\* The rest of MultiSerializer::unsign once the primary has answered.
unsign_after_primary(m, T, value, primary) ==
    IF primary.kind \in {"ok", "panic"} THEN [result |-> primary, calls |-> <<0>>]
    ELSE LET rest == unsign_fallbacks(
                         Len(m.fallbacks), T, value,
                         [k \in 1..Len(m.fallbacks) |-> unsign_to_string(m.fallbacks[k], value)],
                         primary)
         IN  [result |-> rest.result, calls |-> <<0>> \o rest.calls]

\* <MultiSerializer as Serializer>::unsign::<T>
MultiSerializer_unsign(m, T, value) ==
    unsign_after_primary(m, T, value, Serializer_unsign(m.primary, T, value))

\* ------------------------------------------------------------------------
\* The inputs of a run
\* ------------------------------------------------------------------------

MaxValueLen == 2

Algorithms == {"HMAC", "None"}

\* The separators a builder is given: '.', '!', U+00E9 and U+0141.
SignerSeparators == {ch_dot, 33, 233, 321}

\* The chars Separator::new is called with: the printable ASCII chars and
\* two chars outside ASCII.
SeparatorCandidates == (33..126) \cup {233, 321}

\* The values signed: the strings of 'a', 'A' and the separator.
RECURSIVE StringsOver(_, _)
StringsOver(chars, n) ==
    IF n = 0 THEN {<<>>}
    ELSE LET shorter == StringsOver(chars, n - 1)
         IN  shorter \cup {Append(v, c) : v \in {x \in shorter : Len(x) = n - 1}, c \in chars}

Values(sep) == StringsOver({97, sep}, MaxValueLen) \cup {<<65>>}

\* The timestamps signed, in seconds after UNIX_EPOCH: the legacy epoch and
\* later seconds, the second of the crate's test, and two earlier seconds.
Timestamps ==
    {U64(LEGACY_EPOCH), U64(LEGACY_EPOCH + 64), U64(LEGACY_EPOCH + 256),
     U64(1560181622), U64(LEGACY_EPOCH - 1)}

\* The values and timestamps of the two tokens the other party recombines.
SpliceValues == {<<>>, <<65>>, <<97>>}
SpliceTimestamps ==
    {U64(LEGACY_EPOCH), U64(LEGACY_EPOCH + 64), U64(LEGACY_EPOCH + 256)}

\* The readings of the system clock and the max_age values of the expiry check.
ClockReadings ==
    {U64(LEGACY_EPOCH + 63), U64(LEGACY_EPOCH + 64), U64(LEGACY_EPOCH + 124),
     U64(LEGACY_EPOCH + 125)}
MaxAges == {U64(0), U64(60)}

STR_fish == <<102, 105, 115, 104>>
Repeat(c, n) == [k \in 1..n |-> c]

\* The strings handed to unsign that no signer made.
RawInputs(sep) ==
    {<<>>, STR_fish, <<sep>>, <<119, sep>>, <<sep, 119>>, <<97, sep, 33, 33>>,
     <<97, sep>> \o Repeat(65, 26), <<97, sep>> \o Repeat(65, 27),
     <<97, sep>> \o Repeat(65, 28), <<97, sep>> \o Repeat(65, 27) \o <<33>>,
     <<97, sep>> \o Repeat(65, 40), <<97, sep>> \o Repeat(65, 45) \o <<33>>}

\* Strings no signer made that hold a timestamp segment: one that decodes,
\* one out of the alphabet, one too long for 8 bytes, before a signature
\* that decodes and before one too long to decode.
TimedRawInputs(sep) ==
    {<<97, sep>> \o seg \o <<sep>> \o Repeat(65, n) :
        seg \in {<<65, 65>>, <<33, 33>>, Repeat(65, 12)}, n \in {27, 28}}

\* The payloads signed with the inner Signer and handed to the
\* TimestampSigner: no timestamp, and timestamps that do not decode.
Payloads(sep) ==
    {<<97>>, <<97, sep, 33>>, <<97, sep, 65>>, <<97, sep>> \o Repeat(65, 12),
     <<97, sep>> \o Repeat(ch_under, 11), <<97, sep>> \o Repeat(ch_under, 10) \o <<119>>,
     <<97, sep, 65, 65>>, <<97, sep>>}

\* One bit of a base64 symbol flipped.
FlipBit(c, bit) ==
    LET k == B64Index(c)
    IN  B64Char(IF (k \div bit) % 2 = 1 THEN k - bit ELSE k + bit)

\* The chars a char of a token is replaced by.
Replacements(c, sep) ==
    ((IF IsSymbol(c) THEN {FlipBit(c, bit) : bit \in {1, 2, 32}} ELSE {})
        \cup {sep, ch_eq, 97}) \ {c}

\* ------------------------------------------------------------------------
\* The state
\* ------------------------------------------------------------------------

VARIABLES
    phase,            \* "builder" until build() is called, then "signer"
    builder,          \* the SignerBuilder: secret_key, salt, seperator, kd, alg
    signer,           \* the Signer (and the TimestampSigner wrapping it)
    overflow_checks,  \* the build profile: integer overflow panics or wraps
    sepResult,        \* what the last Separator::new returned
    token,            \* the string in the hands of the other party
    origin,           \* how the token came to be
    called,           \* the call `result` is the outcome of
    result,           \* the outcome of the last sign / unsign call
    now,              \* the clock reading of the last expiry check
    expiry,           \* the outcomes of the last value_if_not_expired calls
    multi,            \* the MultiSerializer: primary and fallback serializers
    calls,            \* the serializers the last MultiSerializer call invoked
    other,            \* a second Signer, built from another salt or key
    threads,          \* the calls in progress on the shared signer
    serializer,       \* the SerializerImpl / TimedSerializerImpl: signer, encoding
    unverified,       \* what UnverifiedValue::from_str returned
    compared,         \* the byte pairs the last Signer::unsign compared
    timestamp_signer  \* the TimestampSigner into_timestamp_signer returned

vars == <<phase, builder, signer, overflow_checks, sepResult, token, origin,
          called, result, now, expiry, multi, calls, other, threads, serializer,
          unverified, compared, timestamp_signer>>

NoSigner == [derived_key |-> <<>>, seperator |-> ch_dot, alg |-> "None"]
NoSerializer == [signer |-> NoSigner, encoding |-> "NullEncoding"]
NoMulti == [primary |-> NoSerializer, fallbacks |-> <<>>]
NoUnverified == [T |-> "String", separator |-> ch_dot, result |-> NoOutcome]

Origin(kind, value, timestamp, pos, value2, timestamp2) ==
    [kind |-> kind, value |-> value, timestamp |-> timestamp, pos |-> pos,
     value2 |-> value2, timestamp2 |-> timestamp2, keep |-> ""]
NoOrigin == Origin("none", <<>>, <<>>, 0, <<>>, <<>>)

NoExpiry == [signer |-> NoOutcome, serializer |-> NoOutcome, max_age |-> <<>>]

\* SignerBuilder::new(secret_key), for a digest, an algorithm and a key
\* derivation, in a build of one of the given profiles
SignerBuilder_new(keys, algs, profiles) ==
    /\ phase = "builder"
    /\ builder \in [secret_key : keys, salt : {DEFAULT_SALT},
                    seperator : {ch_dot}, kd : KeyDerivations, alg : algs]
    /\ signer = NoSigner
    /\ overflow_checks \in profiles
    /\ sepResult = NoOutcome
    /\ token = <<>>
    /\ origin = NoOrigin
    /\ called = "none"
    /\ result = NoOutcome
    /\ now = ZeroU64
    /\ expiry = NoExpiry
    /\ multi = NoMulti
    /\ calls = <<>>
    /\ other = NoSigner
    /\ threads = <<>>
    /\ serializer = NoSerializer
    /\ unverified = NoUnverified
    /\ compared = <<>>
    /\ timestamp_signer = with_signer(NoSigner)

\* Separator::new(c)
NewSeparator(c) ==
    /\ phase = "builder"
    /\ sepResult' = Separator_new(c)
    /\ UNCHANGED <<unverified, compared, timestamp_signer, serializer, multi, calls, other, threads, phase, builder, signer, overflow_checks, token, origin,
                   called, result, now, expiry>>

\* SignerBuilder::with_seperator, with the Separator just made
WithSeperator(sep) ==
    /\ phase = "builder"
    /\ sepResult.kind = "ok"
    /\ sepResult.value = <<sep>>
    /\ builder' = [builder EXCEPT !.seperator = sep]
    /\ sepResult' = NoOutcome
    /\ UNCHANGED <<unverified, compared, timestamp_signer, serializer, multi, calls, other, threads, phase, signer, overflow_checks, token, origin, called, result,
                   now, expiry>>

\* SignerBuilder::with_salt
WithSalt(salt) ==
    /\ phase = "builder"
    /\ sepResult = NoOutcome
    /\ builder' = [builder EXCEPT !.salt = salt]
    /\ UNCHANGED <<unverified, compared, timestamp_signer, serializer, multi, calls, other, threads, phase, signer, overflow_checks, sepResult, token, origin,
                   called, result, now, expiry>>

\* SignerBuilder::build (and Signer::into_timestamp_signer, which wraps it)
Build ==
    /\ phase = "builder"
    /\ sepResult = NoOutcome
    /\ phase' = "signer"
    /\ signer' = build(builder)
    /\ UNCHANGED <<unverified, compared, timestamp_signer, serializer, multi, calls, other, threads, builder, overflow_checks, sepResult, token, origin, called,
                   result, now, expiry>>

\* Signer::sign(value)
Sign(value) ==
    /\ phase = "signer"
    /\ origin.kind = "none"
    /\ token' = sign(signer, value)
    /\ origin' = Origin("sign", value, <<>>, 0, <<>>, <<>>)
    /\ called' = "sign"
    /\ result' = Outcome("ok", "", token', <<>>, <<>>)
    /\ expiry' = NoExpiry
    /\ now' = ZeroU64
    /\ UNCHANGED <<unverified, compared, timestamp_signer, serializer, multi, calls, other, threads, phase, builder, signer, overflow_checks, sepResult>>

\* TimestampSigner::sign_with_timestamp(value, timestamp)
SignWithTimestamp(value, secs) ==
    /\ phase = "signer"
    /\ origin.kind = "none"
    /\ result' = sign_with_timestamp(signer, value, secs, overflow_checks)
    /\ token' = result'.value
    /\ origin' = Origin("timed", value, secs, 0, <<>>, <<>>)
    /\ called' = "sign_with_timestamp"
    /\ expiry' = NoExpiry
    /\ now' = ZeroU64
    /\ UNCHANGED <<unverified, compared, timestamp_signer, serializer, multi, calls, other, threads, phase, builder, signer, overflow_checks, sepResult>>

\* The other party replaces one char of a signed token.
Tamper(pos, c) ==
    /\ phase = "signer"
    /\ origin.kind = "sign"
    /\ token' = [token EXCEPT ![pos] = c]
    /\ origin' = [origin EXCEPT !.kind = "tampered", !.pos = pos]
    /\ called' = "none"
    /\ result' = NoOutcome
    /\ expiry' = NoExpiry
    /\ now' = ZeroU64
    /\ compared' = <<>>
    /\ UNCHANGED <<unverified, timestamp_signer, serializer, multi, calls, other, threads, phase, builder, signer, overflow_checks, sepResult>>

\* The other party hands over a string no signer made.
Present(input) ==
    /\ phase = "signer"
    /\ origin.kind = "none"
    /\ token' = input
    /\ origin' = Origin("raw", <<>>, <<>>, 0, <<>>, <<>>)
    /\ called' = "none"
    /\ result' = NoOutcome
    /\ expiry' = NoExpiry
    /\ now' = ZeroU64
    /\ UNCHANGED <<unverified, compared, timestamp_signer, serializer, multi, calls, other, threads, phase, builder, signer, overflow_checks, sepResult>>

\* as_signer().sign(payload): a payload signed without a timestamp
SignPayload(payload) ==
    /\ phase = "signer"
    /\ origin.kind = "none"
    /\ token' = sign(signer, payload)
    /\ origin' = Origin("payload", payload, <<>>, 0, <<>>, <<>>)
    /\ called' = "sign"
    /\ result' = Outcome("ok", "", token', <<>>, <<>>)
    /\ expiry' = NoExpiry
    /\ now' = ZeroU64
    /\ UNCHANGED <<unverified, compared, timestamp_signer, serializer, multi, calls, other, threads, phase, builder, signer, overflow_checks, sepResult>>

\* The other party holds the tokens of (value, secs) and (value2, secs2) and
\* puts the signature of the first on its value and the timestamp of the
\* second (keep = "value"), or on the value of the second and its own
\* timestamp (keep = "timestamp"); the outcome is a token no signer made.
Splice(value, secs, value2, secs2, keep) ==
    LET one == sign_with_timestamp(signer, value, secs, overflow_checks)
        two == sign_with_timestamp(signer, value2, secs2, overflow_checks)
        sep == signer.seperator
        sig == split(sep, one.value).second
        ts1 == split(sep, split(sep, one.value).first).second
        ts2 == split(sep, split(sep, two.value).first).second
        recombined ==
            IF keep = "value" THEN value \o <<sep>> \o ts2 \o <<sep>> \o sig
            ELSE value2 \o <<sep>> \o ts1 \o <<sep>> \o sig
    IN  /\ phase = "signer"
        /\ origin.kind = "none"
        /\ <<value, secs>> # <<value2, secs2>>
        /\ one.kind = "ok"
        /\ two.kind = "ok"
        /\ recombined \notin {one.value, two.value}
        /\ token' = recombined
        /\ origin' = [Origin("splice", value, secs, 0, value2, secs2) EXCEPT !.keep = keep]
        /\ called' = "none"
        /\ result' = NoOutcome
        /\ expiry' = NoExpiry
        /\ now' = ZeroU64
        /\ UNCHANGED <<unverified, compared, timestamp_signer, serializer, multi, calls, other, threads, phase, builder, signer, overflow_checks, sepResult>>

\* Signer::unsign(token)
Unsign ==
    /\ phase = "signer"
    /\ origin.kind # "none"
    /\ called \in {"none", "sign"}
    /\ called' = "unsign"
    /\ result' = unsign(signer, token)
    /\ compared' = unsign_reads(signer, token)
    /\ UNCHANGED <<unverified, timestamp_signer, serializer, multi, calls, other, threads, phase, builder, signer, overflow_checks, sepResult, token,
                   origin, now, expiry>>

\* TimestampSigner::unsign(token)
TimedUnsign ==
    /\ phase = "signer"
    /\ origin.kind # "none"
    /\ called \in {"none", "sign", "sign_with_timestamp"}
    /\ result.kind # "panic"
    /\ called' = "timed_unsign"
    /\ result' = timed_unsign(signer, token, overflow_checks)
    /\ UNCHANGED <<unverified, compared, timestamp_signer, serializer, multi, calls, other, threads, phase, builder, signer, overflow_checks, sepResult, token,
                   origin, now, expiry>>

\* UnsignedValue::value_if_not_expired(max_age), and the same call on the
\* UnsignedTimedSerializerValue of the same value and timestamp
ValueIfNotExpired(max_age, clock) ==
    /\ phase = "signer"
    /\ called = "timed_unsign"
    /\ result.kind = "ok"
    /\ expiry = NoExpiry
    /\ now' = clock
    /\ expiry' = [signer |-> value_if_not_expired(result, max_age, clock),
                  serializer |-> serializer_value_if_not_expired(result, max_age, clock),
                  max_age |-> max_age]
    /\ UNCHANGED <<unverified, compared, timestamp_signer, serializer, multi, calls, other, threads, phase, builder, signer, overflow_checks, sepResult, token,
                   origin, called, result>>

\* ------------------------------------------------------------------------
\* The two codecs on their own: timestamp::encode / decode and the sized
\* base64 encoder, each applied to inputs of its own
\* ------------------------------------------------------------------------

MaxBytes == 64

\* The SystemTimes encoded, in whole seconds after UNIX_EPOCH (a SystemTime
\* holds at most 2^63 - 1 seconds).
CodecSeconds ==
    {U64(0), U64(LEGACY_EPOCH - 1), U64(LEGACY_EPOCH), U64(LEGACY_EPOCH + 1),
     U64(LEGACY_EPOCH + 255), U64(LEGACY_EPOCH + 256), U64(LEGACY_EPOCH + 65535),
     U64(LEGACY_EPOCH + 65536), U64(1560181622), U64(2147483647),
     <<0, 0, 0, 1, 0, 0, 0, 0>>, <<0, 0, 1, 0, 77, 30, 110, 127>>,
     <<0, 128, 0, 0, 0, 0, 0, 0>>, <<1, 0, 0, 0, 0, 0, 0, 0>>,
     <<127, 255, 255, 255, 255, 255, 255, 255>>}

\* The byte strings whose encodings are decoded as timestamp segments:
\* small and large seconds, the largest sums within and the smallest
\* beyond the u64 range, and 9 bytes.
SegmentBytes ==
    {<<>>, <<1>>, <<0, 0, 1>>, <<1, 0>>, <<15, 224, 12, 246>>,
     <<127, 255, 255, 255, 178, 225, 145, 127>>,
     <<127, 255, 255, 255, 178, 225, 145, 128>>,
     <<128, 0, 0, 0, 0, 0, 0, 0>>,
     <<255, 255, 255, 255, 178, 225, 145, 127>>,
     <<255, 255, 255, 255, 178, 225, 145, 128>>,
     <<255, 255, 255, 255, 255, 255, 255, 255>>,
     <<0, 0, 0, 0, 0, 0, 0, 0, 1>>, <<1, 0, 0, 0, 0, 0, 0, 0, 0>>}

\* The strings decoded as timestamp segments.
Segments ==
    {encode(b) : b \in SegmentBytes}
        \cup {<<33>>, <<65>>, <<65, 66>>, <<65, 65, ch_eq>>, <<233>>, Repeat(65, 13)}

\* The byte arrays the sized encoder is given: for every length up to
\* MaxBytes, all zeros, all ones, and a ramp.
ByteArrays ==
    UNION {{[k \in 1..n |-> 0], [k \in 1..n |-> 255], [k \in 1..n |-> (37 * k + n) % 256]}
              : n \in 0..MaxBytes}

\* The outcome of base64::decode as an Outcome.
DecodeOutcome(dec) ==
    IF dec.kind = "panic" THEN Panic(dec.err)
    ELSE IF dec.kind = "err" THEN Outcome("err", dec.err, <<>>, <<>>, <<>>)
    ELSE Outcome("ok", "", dec.bytes, <<>>, <<>>)

\* Base64SizedEncoder::encode: encode_slice writes the symbols into an
\* array of OutputSize zero bytes, and panics if they do not fit.
sized_encode(input) ==
    LET symbols == encode(input)
        size == OutputSize(Len(input))
    IN  IF Len(symbols) > size THEN Panic("output slice too small")
        ELSE Outcome("ok", "", symbols \o [k \in 1..(size - Len(symbols)) |-> 0],
                     <<>>, <<>>)

InitCodec ==
    /\ phase = "codec"
    /\ builder = [secret_key |-> STR_hello, salt |-> DEFAULT_SALT, seperator |-> ch_dot,
                  kd |-> "DjangoConcat", alg |-> "HMAC"]
    /\ signer = NoSigner
    /\ overflow_checks \in BOOLEAN
    /\ sepResult = NoOutcome
    /\ token = <<>>
    /\ origin = NoOrigin
    /\ called = "none"
    /\ result = NoOutcome
    /\ now = ZeroU64
    /\ expiry = NoExpiry
    /\ multi = NoMulti
    /\ calls = <<>>
    /\ other = NoSigner
    /\ threads = <<>>
    /\ serializer = NoSerializer
    /\ unverified = NoUnverified
    /\ compared = <<>>
    /\ timestamp_signer = with_signer(NoSigner)

\* timestamp::encode(timestamp)
EncodeTimestamp(secs) ==
    /\ phase = "codec"
    /\ origin.kind = "none"
    /\ result' = timestamp_encode(secs, overflow_checks)
    /\ token' = result'.value
    /\ origin' = Origin("timestamp", <<>>, secs, 0, <<>>, <<>>)
    /\ called' = "timestamp_encode"
    /\ UNCHANGED <<unverified, compared, timestamp_signer, serializer, multi, calls, other, threads, phase, builder, signer, overflow_checks, sepResult, now, expiry>>

\* A timestamp segment no encoder made.
PresentSegment(segment) ==
    /\ phase = "codec"
    /\ origin.kind = "none"
    /\ token' = segment
    /\ origin' = Origin("segment", <<>>, <<>>, 0, <<>>, <<>>)
    /\ UNCHANGED <<unverified, compared, timestamp_signer, serializer, multi, calls, other, threads, phase, builder, signer, overflow_checks, sepResult, called,
                   result, now, expiry>>

\* timestamp::decode(token)
DecodeTimestamp ==
    /\ phase = "codec"
    /\ origin.kind \in {"timestamp", "segment"}
    /\ called \in {"none", "timestamp_encode"}
    /\ result.kind # "panic"
    /\ result' = timestamp_decode(token, overflow_checks)
    /\ called' = "timestamp_decode"
    /\ UNCHANGED <<unverified, compared, timestamp_signer, serializer, multi, calls, other, threads, phase, builder, signer, overflow_checks, sepResult, token,
                   origin, now, expiry>>

\* Base64SizedEncoder::<N>::encode(input), N the length of `bytes`
EncodeBytes(bytes) ==
    /\ phase = "codec"
    /\ origin.kind = "none"
    /\ result' = sized_encode(bytes)
    /\ token' = result'.value
    /\ origin' = Origin("bytes", bytes, <<>>, 0, <<>>, <<>>)
    /\ called' = "encode"
    /\ UNCHANGED <<unverified, compared, timestamp_signer, serializer, multi, calls, other, threads, phase, builder, signer, overflow_checks, sepResult, now, expiry>>

\* base64::decode::<N, _>(token), into an array of the N bytes encoded
DecodeBytes ==
    /\ phase = "codec"
    /\ origin.kind = "bytes"
    /\ called = "encode"
    /\ result.kind = "ok"
    /\ result' = DecodeOutcome(decode(AsBytes(token), Len(origin.value)))
    /\ called' = "decode"
    /\ UNCHANGED <<unverified, compared, timestamp_signer, serializer, multi, calls, other, threads, phase, builder, signer, overflow_checks, sepResult, token,
                   origin, now, expiry>>

NextCodec ==
    \/ \E secs \in CodecSeconds : EncodeTimestamp(secs)
    \/ \E segment \in Segments : PresentSegment(segment)
    \/ DecodeTimestamp
    \/ \E bytes \in ByteArrays : EncodeBytes(bytes)
    \/ DecodeBytes

SpecCodec == InitCodec /\ [][NextCodec]_vars

\* The untimed Signer: every key, salt, algorithm and separator; values
\* signed and strings no signer made, unsigned.
Init == SignerBuilder_new(SecretKeys, Algorithms, {FALSE})

Next ==
    \/ \E c \in SeparatorCandidates : NewSeparator(c)
    \/ \E sep \in SignerSeparators : WithSeperator(sep)
    \/ \E salt \in Salts : WithSalt(salt)
    \/ Build
    \/ \E value \in Values(signer.seperator) : Sign(value)
    \/ \E input \in RawInputs(signer.seperator) : Present(input)
    \/ Unsign

Spec == Init /\ [][Next]_vars

\* ------------------------------------------------------------------------
\* The Signer moved into a TimestampSigner: built with each key derivation,
\* salt and separator, it signs and unsigns, is converted by value, and
\* signs and unsigns again through as_signer().  `signer` keeps the Signer
\* as it was when it was moved.
\* ------------------------------------------------------------------------

InitInto == SignerBuilder_new({STR_hello}, {"HMAC"}, {FALSE})

\* Signer::into_timestamp_signer(self)
IntoTimestampSigner ==
    /\ phase = "signer"
    /\ phase' = "timestamp_signer"
    /\ timestamp_signer' = into_timestamp_signer(signer)
    /\ UNCHANGED <<builder, signer, overflow_checks, sepResult, token, origin, called,
                   result, now, expiry, multi, calls, other, threads, serializer,
                   unverified, compared>>

\* timestamp_signer.as_signer().sign(value)
AsSignerSign(value) ==
    /\ phase = "timestamp_signer"
    /\ origin.kind = "none"
    /\ token' = sign(as_signer(timestamp_signer), value)
    /\ origin' = Origin("as_signer.sign", value, <<>>, 0, <<>>, <<>>)
    /\ called' = "as_signer.sign"
    /\ result' = Outcome("ok", "", token', <<>>, <<>>)
    /\ UNCHANGED <<phase, builder, signer, overflow_checks, sepResult, now, expiry, multi,
                   calls, other, threads, serializer, unverified, compared,
                   timestamp_signer>>

\* timestamp_signer.as_signer().unsign(token)
AsSignerUnsign ==
    /\ phase = "timestamp_signer"
    /\ origin.kind # "none"
    /\ called # "as_signer.unsign"
    /\ called' = "as_signer.unsign"
    /\ result' = unsign(as_signer(timestamp_signer), token)
    /\ compared' = unsign_reads(as_signer(timestamp_signer), token)
    /\ UNCHANGED <<phase, builder, signer, overflow_checks, sepResult, token, origin, now,
                   expiry, multi, calls, other, threads, serializer, unverified,
                   timestamp_signer>>

NextInto ==
    \/ \E c \in {33, 233} : NewSeparator(c)
    \/ \E sep \in {33, 233} : WithSeperator(sep)
    \/ \E salt \in Salts : WithSalt(salt)
    \/ Build
    \/ \E value \in Values(signer.seperator) : Sign(value)
    \/ \E input \in RawInputs(signer.seperator) : Present(input)
    \/ Unsign
    \/ IntoTimestampSigner
    \/ \E value \in Values(signer.seperator) : AsSignerSign(value)
    \/ AsSignerUnsign

SpecInto == InitInto /\ [][NextInto]_vars

\* The untimed Signer against a party that replaces one char of a token.
InitTamper == SignerBuilder_new({STR_hello}, Algorithms, {FALSE})

NextTamper ==
    \/ \E c \in SignerSeparators : NewSeparator(c)
    \/ \E sep \in SignerSeparators : WithSeperator(sep)
    \/ Build
    \/ \E value \in Values(signer.seperator) : Sign(value)
    \/ \E pos \in 1..Len(token) :
          \E c \in Replacements(token[pos], signer.seperator) : Tamper(pos, c)
    \/ Unsign

SpecTamper == InitTamper /\ [][NextTamper]_vars

\* The TimestampSigner, in a build with and a build without overflow checks.
InitTimed == SignerBuilder_new({STR_hello}, Algorithms, BOOLEAN)

NextTimed ==
    \/ \E c \in SignerSeparators : NewSeparator(c)
    \/ \E sep \in SignerSeparators : WithSeperator(sep)
    \/ Build
    \/ \E value \in Values(signer.seperator), secs \in Timestamps :
          SignWithTimestamp(value, secs)
    \/ \E payload \in Payloads(signer.seperator) : SignPayload(payload)
    \/ \E input \in RawInputs(signer.seperator) \cup TimedRawInputs(signer.seperator) :
          Present(input)
    \/ \E value, value2 \in SpliceValues, secs, secs2 \in SpliceTimestamps :
          \E keep \in {"value", "timestamp"} : Splice(value, secs, value2, secs2, keep)
    \/ TimedUnsign
    \/ \E max_age \in MaxAges, clock \in ClockReadings : ValueIfNotExpired(max_age, clock)

SpecTimed == InitTimed /\ [][NextTimed]_vars

\* default_builder(secret_key)
DefaultBuilder(secret_key) ==
    [secret_key |-> secret_key, salt |-> DEFAULT_SALT, seperator |-> ch_dot,
     kd |-> "DjangoConcat", alg |-> "HMAC"]

\* ------------------------------------------------------------------------
\* Two signers: one built from the builder, and another built from the
\* same builder with another salt or another secret key, for every key
\* derivation
\* ------------------------------------------------------------------------

InitSalt ==
    /\ phase = "builder"
    /\ builder \in [secret_key : NamespaceKeys, salt : {DEFAULT_SALT},
                    seperator : {ch_dot}, kd : NamespaceKeyDerivations, alg : {"HMAC"}]
    /\ signer = NoSigner
    /\ overflow_checks = FALSE
    /\ sepResult = NoOutcome
    /\ token = <<>>
    /\ origin = NoOrigin
    /\ called = "none"
    /\ result = NoOutcome
    /\ now = ZeroU64
    /\ expiry = NoExpiry
    /\ multi = NoMulti
    /\ calls = <<>>
    /\ other = NoSigner
    /\ threads = <<>>
    /\ serializer = NoSerializer
    /\ unverified = NoUnverified
    /\ compared = <<>>
    /\ timestamp_signer = with_signer(NoSigner)

\* SignerBuilder::new(secret_key).with_salt(salt).build(), with the digest,
\* algorithm, key derivation and separator of the first signer, and either
\* its secret key or its salt
BuildOther(secret_key, salt) ==
    /\ phase = "signer"
    /\ other = NoSigner
    /\ origin.kind = "none"
    /\ (secret_key = builder.secret_key) # (salt = builder.salt)
    /\ other' = build([builder EXCEPT !.secret_key = secret_key, !.salt = salt])
    /\ UNCHANGED <<unverified, compared, timestamp_signer, serializer, phase, builder, signer, overflow_checks, sepResult, token,
                   origin, called, result, now, expiry, multi, calls, threads>>

\* Signer::unsign(token) on the other signer
UnsignOther ==
    /\ phase = "signer"
    /\ other # NoSigner
    /\ origin.kind = "sign"
    /\ called = "sign"
    /\ called' = "other.unsign"
    /\ result' = unsign(other, token)
    /\ UNCHANGED <<unverified, compared, timestamp_signer, serializer, phase, builder, signer, overflow_checks, sepResult, token,
                   origin, now, expiry, multi, calls, other, threads>>

NextSalt ==
    \/ \E salt \in Salts : WithSalt(salt)
    \/ Build
    \/ \E secret_key \in NamespaceKeys : \E salt \in Salts : BuildOther(secret_key, salt)
    \/ \E value \in Values(signer.seperator) : Sign(value)
    \/ Unsign
    \/ UnsignOther

SpecSalt == InitSalt /\ [][NextSalt]_vars

\* ------------------------------------------------------------------------
\* Several threads calling one shared Signer (also as a TimestampSigner)
\* and one shared MultiSerializer.  Every method takes &self; a call is two
\* steps, each reading the shared fields as they are at that step, with the
\* call's local variables kept between the steps.
\* ------------------------------------------------------------------------

ThreadCount == 2

Arg(value, input, secs, T) == [value |-> value, input |-> input, secs |-> secs, T |-> T]
Idle == [pc |-> "idle", op |-> "", arg |-> Arg(<<>>, <<>>, <<>>, ""), local |-> <<>>,
         ret |-> NoOutcome]

\* The shared objects.
SharedSigners == {build([DefaultBuilder(STR_hello) EXCEPT !.seperator = c]) : c \in {ch_dot, 233}}
SharedMulti ==
    add_fallback(
        MultiSerializer_new(serializer_with_signer(build(DefaultBuilder(STR_hello)),
                                                   "NullEncoding")),
        serializer_with_signer(build(DefaultBuilder(STR_world)), "URLSafeEncoding"))

\* The calls a thread makes.
ThreadCalls(sg) ==
    {[op |-> "sign", arg |-> Arg(<<97>>, <<>>, <<>>, "")]}
    \cup {[op |-> "unsign", arg |-> Arg(<<>>, i, <<>>, "")] :
              i \in {sign(sg, <<97>>), <<97, sg.seperator>>}}
    \cup {[op |-> "sign_with_timestamp",
            arg |-> Arg(<<97>>, <<>>, U64(LEGACY_EPOCH + 64), "")]}
    \cup {[op |-> "multi.sign", arg |-> Arg(JNumber(7), <<>>, <<>>, "")]}
    \cup {[op |-> "multi.unsign",
            arg |-> Arg(<<>>, Serializer_sign(SharedMulti.fallbacks[1], JString(<<97>>)),
                        <<>>, "String")]}

\* Local variables kept in one buffer per method, which the calls of every
\* thread share.
LocalShared(ts, t) ==
    LET users == {u \in DOMAIN ts : ts[u].op = ts[t].op /\ ts[u].pc = "stepped"}
    IN  ts[CHOOSE u \in users : \A w \in users : u >= w].local

\* The local variables of the call of thread t: its own stack frame.
Local(ts, t) == ts[t].local

\* Signer::unsign after `self.seperator.split(&value)?`
unsign_split(sg, sp) ==
    IF ~sp.found
    THEN Outcome("err", "SeparatorNotFound", <<sg.seperator>>, <<>>, <<>>)
    ELSE IF verify_encoded_signature(sg, AsBytes(sp.first), AsBytes(sp.second)) = "panic"
    THEN Panic("slice index out of range")
    ELSE IF verify_encoded_signature(sg, AsBytes(sp.first), AsBytes(sp.second)) = "true"
    THEN Outcome("ok", "", sp.first, <<>>, <<>>)
    ELSE Outcome("err", "SignatureMismatch", sp.first, sp.second, <<>>)

\* TimestampSigner::sign_with_timestamp after `timestamp::encode(timestamp)`
sign_with_encoded(sg, value, enc) ==
    IF enc.kind = "panic" THEN enc
    ELSE Outcome("ok", "",
                 value \o <<sg.seperator>> \o enc.value \o <<sg.seperator>>
                       \o encode(AlgSign(timed_mac_input(sg, value, enc.value))),
                 <<>>, <<>>)

\* The first step of a call: up to the first read of a shared field.
FirstStep(op, arg, sg, m, oc) ==
    IF op = "sign" THEN arg.value \o <<sg.seperator>>
    ELSE IF op = "unsign" THEN split(sg.seperator, arg.input)
    ELSE IF op = "sign_with_timestamp" THEN timestamp_encode(arg.secs, oc)
    ELSE IF op = "multi.sign" THEN Encoding_encode(m.primary.encoding, to_string(arg.value))
    ELSE Serializer_unsign(m.primary, arg.T, arg.input)

\* The second step: the rest of the call, from its local variables.
SecondStep(op, arg, local, sg, m) ==
    IF op = "sign"
    THEN Outcome("ok", "",
                 local \o encode(get_signature(sg.alg, sg.derived_key, AsBytes(arg.value))),
                 <<>>, <<>>)
    ELSE IF op = "unsign" THEN unsign_split(sg, local)
    ELSE IF op = "sign_with_timestamp" THEN sign_with_encoded(sg, arg.value, local)
    ELSE IF op = "multi.sign" THEN Outcome("ok", "", sign(m.primary.signer, local), <<>>, <<>>)
    ELSE unsign_after_primary(m, arg.T, arg.input, local).result

InitShared ==
    /\ phase = "shared"
    /\ builder = DefaultBuilder(STR_hello)
    /\ signer \in SharedSigners
    /\ overflow_checks = FALSE
    /\ sepResult = NoOutcome
    /\ token = <<>>
    /\ origin = NoOrigin
    /\ called = "none"
    /\ result = NoOutcome
    /\ now = ZeroU64
    /\ expiry = NoExpiry
    /\ multi = SharedMulti
    /\ calls = <<>>
    /\ other = NoSigner
    /\ threads = [t \in 1..ThreadCount |-> Idle]
    /\ serializer = NoSerializer
    /\ unverified = NoUnverified
    /\ compared = <<>>
    /\ timestamp_signer = with_signer(NoSigner)

\* Thread t enters a method of a shared object.
Call(t, call) ==
    /\ phase = "shared"
    /\ threads[t].pc = "idle"
    /\ threads' = [threads EXCEPT ![t] = [Idle EXCEPT !.pc = "called", !.op = call.op,
                                                      !.arg = call.arg]]
    /\ UNCHANGED <<unverified, compared, timestamp_signer, serializer, phase, builder, signer, overflow_checks, sepResult, token, origin,
                   called, result, now, expiry, multi, calls, other>>

\* Thread t runs the first step of its call.
Step(t) ==
    /\ phase = "shared"
    /\ threads[t].pc = "called"
    /\ threads' = [threads EXCEPT
                      ![t].pc = "stepped",
                      ![t].local = FirstStep(threads[t].op, threads[t].arg, signer, multi,
                                             overflow_checks)]
    /\ UNCHANGED <<unverified, compared, timestamp_signer, serializer, phase, builder, signer, overflow_checks, sepResult, token, origin,
                   called, result, now, expiry, multi, calls, other>>

\* Thread t runs the rest of its call and returns.
Return(t) ==
    /\ phase = "shared"
    /\ threads[t].pc = "stepped"
    /\ threads' = [threads EXCEPT
                      ![t].pc = "returned",
                      ![t].ret = SecondStep(threads[t].op, threads[t].arg, Local(threads, t),
                                            signer, multi)]
    /\ UNCHANGED <<unverified, compared, timestamp_signer, serializer, phase, builder, signer, overflow_checks, sepResult, token, origin,
                   called, result, now, expiry, multi, calls, other>>

NextShared ==
    \/ \E t \in 1..ThreadCount : \E call \in ThreadCalls(signer) : Call(t, call)
    \/ \E t \in 1..ThreadCount : Step(t)
    \/ \E t \in 1..ThreadCount : Return(t)

SpecShared == InitShared /\ [][NextShared]_vars

\* The types unsign::<T> is asked for, and the call for each.
Targets == {"String", "u64"}
UnsignCall(T) == IF T = "String" THEN "unsign::<String>" ELSE "unsign::<u64>"
UnsignCalls == {UnsignCall(T) : T \in Targets}
TargetOf(call) == IF call = "unsign::<String>" THEN "String" ELSE "u64"

\* ------------------------------------------------------------------------
\* One serializer, plain and timed: every encoding, separators of one and
\* of two bytes, Strings and u64s; and the two encodings on their own
\* ------------------------------------------------------------------------

\* The serializers: serializer_with_signer / timed_serializer_with_signer
Serializers ==
    {serializer_with_signer(build([DefaultBuilder(STR_hello) EXCEPT !.seperator = c]), e) :
        c \in {ch_dot, 33, 233}, e \in Encodings}

\* The strings encoded: empty, ASCII of each length mod 3, a quote and a
\* backslash, the separator, chars of two UTF-8 bytes.
SerdeStrings ==
    {<<>>, <<97>>, <<97, 98>>, <<97, 98, 99>>, <<ch_quote, ch_backslash>>, <<ch_dot>>,
     <<233>>, <<97, 321>>}

\* The values signed.
SerdeValues ==
    {JString(<<>>), JString(<<97>>), JString(<<ch_quote, ch_backslash>>),
     JString(<<ch_dot>>), JString(<<233>>), JNumber(0), JNumber(7), JNumber(1560181622)}

\* The timestamps signed, in seconds after UNIX_EPOCH.
SerdeTimestamps ==
    {U64(LEGACY_EPOCH), U64(LEGACY_EPOCH + 64), U64(1560181622), U64(LEGACY_EPOCH - 1)}

\* The Result of Encoding::decode as an Outcome.
EncodingOutcome(decoded) ==
    IF decoded.kind = "panic" THEN Panic(decoded.error)
    ELSE IF decoded.kind = "err" THEN PayloadInvalid(<<>>, decoded.error)
    ELSE Outcome("ok", "", decoded.value, <<>>, <<>>)

InitSerde ==
    /\ phase = "serializer"
    /\ builder = DefaultBuilder(STR_hello)
    /\ signer = NoSigner
    /\ overflow_checks \in BOOLEAN
    /\ sepResult = NoOutcome
    /\ token = <<>>
    /\ origin = NoOrigin
    /\ called = "none"
    /\ result = NoOutcome
    /\ now = ZeroU64
    /\ expiry = NoExpiry
    /\ multi = NoMulti
    /\ calls = <<>>
    /\ other = NoSigner
    /\ threads = << >>
    /\ serializer \in Serializers
    /\ unverified = NoUnverified
    /\ compared = <<>>
    /\ timestamp_signer = with_signer(NoSigner)

\* Encoding::encode(serialized_input)
EncodingEncode(serialized_input) ==
    /\ phase = "serializer"
    /\ origin.kind = "none"
    /\ token' = Encoding_encode(serializer.encoding, serialized_input)
    /\ origin' = Origin("string", serialized_input, <<>>, 0, <<>>, <<>>)
    /\ called' = "encode"
    /\ UNCHANGED <<unverified, compared, timestamp_signer, phase, builder, signer, overflow_checks, sepResult, result, now,
                   expiry, multi, calls, other, threads, serializer>>

\* Encoding::decode(token)
EncodingDecode ==
    /\ phase = "serializer"
    /\ origin.kind = "string"
    /\ called = "encode"
    /\ result' = EncodingOutcome(Encoding_decode(serializer.encoding, token))
    /\ called' = "decode"
    /\ UNCHANGED <<unverified, compared, timestamp_signer, phase, builder, signer, overflow_checks, sepResult, token, origin,
                   now, expiry, multi, calls, other, threads, serializer>>

\* Serializer::sign(value)
SerializerSign(value) ==
    /\ phase = "serializer"
    /\ origin.kind = "none"
    /\ token' = Serializer_sign(serializer, value)
    /\ result' = Outcome("ok", "", token', <<>>, <<>>)
    /\ origin' = Origin("serializer.sign", value, <<>>, 0, <<>>, <<>>)
    /\ called' = "sign"
    /\ UNCHANGED <<unverified, compared, timestamp_signer, phase, builder, signer, overflow_checks, sepResult, now, expiry,
                   multi, calls, other, threads, serializer>>

\* Serializer::unsign::<T>(token)
SerializerUnsign(T) ==
    /\ phase = "serializer"
    /\ origin.kind = "serializer.sign"
    /\ called = "sign"
    /\ result' = Serializer_unsign(serializer, T, token)
    /\ called' = UnsignCall(T)
    /\ UNCHANGED <<unverified, compared, timestamp_signer, phase, builder, signer, overflow_checks, sepResult, token, origin,
                   now, expiry, multi, calls, other, threads, serializer>>

\* TimedSerializer::sign_with_timestamp(value, timestamp)
TimedSerializerSign(value, secs) ==
    /\ phase = "serializer"
    /\ origin.kind = "none"
    /\ result' = TimedSerializer_sign_with_timestamp(serializer, value, secs, overflow_checks)
    /\ token' = result'.value
    /\ origin' = Origin("timed.sign", value, secs, 0, <<>>, <<>>)
    /\ called' = "sign_with_timestamp"
    /\ UNCHANGED <<unverified, compared, timestamp_signer, phase, builder, signer, overflow_checks, sepResult, now, expiry,
                   multi, calls, other, threads, serializer>>

\* TimedSerializer::unsign::<T>(token)
TimedSerializerUnsign(T) ==
    /\ phase = "serializer"
    /\ origin.kind = "timed.sign"
    /\ called = "sign_with_timestamp"
    /\ result.kind = "ok"
    /\ result' = TimedSerializer_unsign(serializer, T, token, overflow_checks)
    /\ called' = UnsignCall(T)
    /\ UNCHANGED <<unverified, compared, timestamp_signer, phase, builder, signer, overflow_checks, sepResult, token, origin,
                   now, expiry, multi, calls, other, threads, serializer>>

NextSerde ==
    \/ \E s \in SerdeStrings : EncodingEncode(s)
    \/ EncodingDecode
    \/ \E v \in SerdeValues : SerializerSign(v)
    \/ \E T \in Targets : SerializerUnsign(T)
    \/ \E v \in SerdeValues : \E secs \in SerdeTimestamps : TimedSerializerSign(v, secs)
    \/ \E T \in Targets : TimedSerializerUnsign(T)

SpecSerde == InitSerde /\ [][NextSerde]_vars

\* ------------------------------------------------------------------------
\* Two signers of the same key derivation, Concat or DjangoConcat, built
\* from two different pairs of secret key and salt, among them pairs whose
\* bytes differ only in where the salt ends
\* ------------------------------------------------------------------------

\* "c", "bc", "signerc", "hello"
DeriveKeys == {<<99>>, <<98, 99>>, STR_signer \o <<99>>, STR_hello}
\* "a", "ab", "asigner", "itsdangerous.Signer"
DeriveSalts == {<<97>>, <<97, 98>>, <<97>> \o STR_signer, DEFAULT_SALT}

InitDerive ==
    /\ phase = "builder"
    /\ builder \in [secret_key : DeriveKeys, salt : {DEFAULT_SALT}, seperator : {ch_dot},
                    kd : {"Concat", "DjangoConcat"}, alg : {"HMAC"}]
    /\ signer = NoSigner
    /\ overflow_checks = FALSE
    /\ sepResult = NoOutcome
    /\ token = <<>>
    /\ origin = NoOrigin
    /\ called = "none"
    /\ result = NoOutcome
    /\ now = ZeroU64
    /\ expiry = NoExpiry
    /\ multi = NoMulti
    /\ calls = <<>>
    /\ other = NoSigner
    /\ threads = <<>>
    /\ serializer = NoSerializer
    /\ unverified = NoUnverified
    /\ compared = <<>>
    /\ timestamp_signer = with_signer(NoSigner)

\* SignerBuilder::new(secret_key).with_salt(salt).build() with the digest,
\* algorithm and key derivation of the first signer, for another pair
BuildSecond(secret_key, salt) ==
    /\ phase = "signer"
    /\ other = NoSigner
    /\ <<secret_key, salt>> # <<builder.secret_key, builder.salt>>
    /\ other' = build([builder EXCEPT !.secret_key = secret_key, !.salt = salt])
    /\ UNCHANGED <<phase, builder, signer, overflow_checks, sepResult, token, origin,
                   called, result, now, expiry, multi, calls, threads, serializer,
                   unverified, compared, timestamp_signer>>

NextDerive ==
    \/ \E salt \in DeriveSalts : WithSalt(salt)
    \/ Build
    \/ \E secret_key \in DeriveKeys : \E salt \in DeriveSalts : BuildSecond(secret_key, salt)

SpecDerive == InitDerive /\ [][NextDerive]_vars

\* ------------------------------------------------------------------------
\* Deferred verification: a token is deserialized by UnverifiedValue::from_str
\* and verified afterwards, by the signer of the serializer or by a signer
\* of another key; the serializer unsigns the same token directly
\* ------------------------------------------------------------------------

\* The signer of the serializer with another secret key / another separator.
Rekeyed(sg) == build([DefaultBuilder(STR_world) EXCEPT !.seperator = sg.seperator])
Reseparated(sg) ==
    build([DefaultBuilder(STR_hello) EXCEPT
              !.seperator = IF sg.seperator = 33 THEN ch_dot ELSE 33])

\* The signers that make a token: the serializer's own and the two above.
Issuer(who) ==
    IF who = "own" THEN serializer.signer
    ELSE IF who = "rekeyed" THEN Rekeyed(serializer.signer)
    ELSE Reseparated(serializer.signer)
Issuers == {"own", "rekeyed", "reseparated"}

\* The payloads signed as they are: no JSON, a signature too long to decode.
UnverifiedInputs(sg) ==
    {STR_fish, sign(sg, <<123, 123>>),
     <<ch_quote, 97, ch_quote, sg.seperator>> \o Repeat(65, 28),
     <<55, sg.seperator>> \o Repeat(65, 27), <<55, sg.seperator>>}

InitUnverified ==
    /\ phase = "unverified"
    /\ builder = DefaultBuilder(STR_hello)
    /\ signer = NoSigner
    /\ overflow_checks = TRUE
    /\ sepResult = NoOutcome
    /\ token = <<>>
    /\ origin = NoOrigin
    /\ called = "none"
    /\ result = NoOutcome
    /\ now = ZeroU64
    /\ expiry = NoExpiry
    /\ multi = NoMulti
    /\ calls = <<>>
    /\ other = NoSigner
    /\ threads = << >>
    /\ serializer \in Serializers
    /\ unverified = NoUnverified
    /\ compared = <<>>
    /\ timestamp_signer = with_signer(NoSigner)

\* Serializer::sign(value), by the serializer or by one of another signer
IssuerSign(who, value) ==
    /\ phase = "unverified"
    /\ origin.kind = "none"
    /\ token' = Serializer_sign(serializer_with_signer(Issuer(who), serializer.encoding), value)
    /\ origin' = [Origin("serializer.sign", value, <<>>, 0, <<>>, <<>>) EXCEPT !.keep = who]
    /\ called' = "sign"
    /\ result' = Outcome("ok", "", token', <<>>, <<>>)
    /\ UNCHANGED <<phase, builder, signer, overflow_checks, sepResult, now, expiry, multi,
                   calls, other, threads, serializer, unverified, compared,
                   timestamp_signer>>

\* A string no serializer made reaches the program.
UnverifiedPresent(input) ==
    /\ phase = "unverified"
    /\ origin.kind = "none"
    /\ token' = input
    /\ origin' = Origin("raw", input, <<>>, 0, <<>>, <<>>)
    /\ called' = "present"
    /\ UNCHANGED <<phase, builder, signer, overflow_checks, sepResult, result, now, expiry,
                   multi, calls, other, threads, serializer, unverified, compared,
                   timestamp_signer>>

\* UnverifiedValue::<T>::from_str(separator, encoding, token)
FromStr(T, separator) ==
    /\ phase = "unverified"
    /\ called \in {"sign", "present"}
    /\ unverified' = [T |-> T, separator |-> separator,
                      result |-> UnverifiedValue_from_str(T, separator,
                                                          serializer.encoding, token)]
    /\ called' = "from_str"
    /\ UNCHANGED <<phase, builder, signer, overflow_checks, sepResult, token, origin,
                   result, now, expiry, multi, calls, other, threads, serializer, compared,
                   timestamp_signer>>

\* UnverifiedValue::verify(signer), with the serializer or with the signer
\* of another key
Verify(who) ==
    /\ phase = "unverified"
    /\ called = "from_str"
    /\ unverified.result.kind = "ok"
    /\ result' = UnverifiedValue_verify(unverified.result, Issuer(who))
    /\ other' = Issuer(who)
    /\ called' = "verify"
    /\ UNCHANGED <<phase, builder, signer, overflow_checks, sepResult, token, origin, now,
                   expiry, multi, calls, threads, serializer, unverified, compared,
                   timestamp_signer>>

\* Serializer::unsign::<T>(token), on the token as it came
DirectUnsign(T) ==
    /\ phase = "unverified"
    /\ called \in {"sign", "present"}
    /\ result' = Serializer_unsign(serializer, T, token)
    /\ called' = UnsignCall(T)
    /\ UNCHANGED <<phase, builder, signer, overflow_checks, sepResult, token, origin, now,
                   expiry, multi, calls, other, threads, serializer, unverified, compared,
                   timestamp_signer>>

NextUnverified ==
    \/ \E who \in Issuers : \E v \in SerdeValues : IssuerSign(who, v)
    \/ \E input \in UnverifiedInputs(serializer.signer) : UnverifiedPresent(input)
    \/ \E T \in Targets : \E c \in {ch_dot, 33, 233} : FromStr(T, c)
    \/ \E who \in {"own", "rekeyed"} : Verify(who)
    \/ \E T \in Targets : DirectUnsign(T)

SpecUnverified == InitUnverified /\ [][NextUnverified]_vars

\* ------------------------------------------------------------------------
\* The MultiSerializer: every primary, every list of up to MaxFallbacks
\* fallbacks, tokens of the primary, of a fallback and of neither, and
\* every requested type
\* ------------------------------------------------------------------------

MaxFallbacks == 2

\* The serializers a MultiSerializer is assembled from.
MultiSerializers ==
    {serializer_with_signer(build(DefaultBuilder(k)), e) :
        k \in {STR_hello, STR_world}, e \in Encodings}

\* The values signed.
MultiValues == {JString(<<97>>), JString(<<ch_dot>>), JNumber(7)}

\* The tokens handed in: no separator, an empty signature, a signature too
\* long for its array, and the tokens of every serializer.
MultiInputs ==
    {<<>>, <<97, ch_dot>>, <<97, ch_dot>> \o Repeat(65, 28)}
        \cup {Serializer_sign(s, v) : s \in MultiSerializers, v \in MultiValues}

InitMulti ==
    /\ phase = "multi"
    /\ builder = DefaultBuilder(STR_hello)
    /\ signer = NoSigner
    /\ overflow_checks = FALSE
    /\ sepResult = NoOutcome
    /\ token = <<>>
    /\ origin = NoOrigin
    /\ called = "none"
    /\ result = NoOutcome
    /\ now = ZeroU64
    /\ expiry = NoExpiry
    /\ multi \in {MultiSerializer_new(p) : p \in MultiSerializers}
    /\ calls = <<>>
    /\ other = NoSigner
    /\ threads = <<>>
    /\ serializer = NoSerializer
    /\ unverified = NoUnverified
    /\ compared = <<>>
    /\ timestamp_signer = with_signer(NoSigner)

\* MultiSerializer::add_fallback(fallback_serializer)
AddFallback(fallback_serializer) ==
    /\ phase = "multi"
    /\ origin.kind = "none"
    /\ Len(multi.fallbacks) < MaxFallbacks
    /\ multi' = add_fallback(multi, fallback_serializer)
    /\ UNCHANGED <<unverified, compared, timestamp_signer, serializer, phase, builder, signer, overflow_checks, sepResult, token,
                   origin, called, result, now, expiry, calls, other, threads>>

\* MultiSerializer::sign(value)
MultiSign(value) ==
    /\ phase = "multi"
    /\ origin.kind = "none"
    /\ LET r == MultiSerializer_sign(multi, value)
       IN  /\ result' = r.result
           /\ calls' = r.calls
           /\ token' = r.result.value
    /\ origin' = Origin("multi.sign", value, <<>>, 0, <<>>, <<>>)
    /\ called' = "sign"
    /\ UNCHANGED <<unverified, compared, timestamp_signer, serializer, phase, builder, signer, overflow_checks, sepResult, now,
                   expiry, multi, other, threads>>

\* Serializer::sign(value) on the k-th fallback, by a holder of the old key
FallbackSign(k, value) ==
    /\ phase = "multi"
    /\ origin.kind = "none"
    /\ k \in 1..Len(multi.fallbacks)
    /\ token' = Serializer_sign(multi.fallbacks[k], value)
    /\ origin' = Origin("fallback.sign", value, <<>>, k, <<>>, <<>>)
    /\ UNCHANGED <<unverified, compared, timestamp_signer, serializer, phase, builder, signer, overflow_checks, sepResult, called,
                   result, now, expiry, multi, calls, other, threads>>

\* A token the MultiSerializer did not make.
MultiPresent(input) ==
    /\ phase = "multi"
    /\ origin.kind = "none"
    /\ token' = input
    /\ origin' = Origin("raw", <<>>, <<>>, 0, <<>>, <<>>)
    /\ UNCHANGED <<unverified, compared, timestamp_signer, serializer, phase, builder, signer, overflow_checks, sepResult, called,
                   result, now, expiry, multi, calls, other, threads>>

\* MultiSerializer::unsign::<T>(token)
MultiUnsign(T) ==
    /\ phase = "multi"
    /\ origin.kind # "none"
    /\ called \in {"none", "sign"}
    /\ LET r == MultiSerializer_unsign(multi, T, token)
       IN  /\ result' = r.result
           /\ calls' = r.calls
    /\ called' = UnsignCall(T)
    /\ UNCHANGED <<unverified, compared, timestamp_signer, serializer, phase, builder, signer, overflow_checks, sepResult, token,
                   origin, now, expiry, multi, other, threads>>

NextMulti ==
    \/ \E s \in MultiSerializers : AddFallback(s)
    \/ \E v \in MultiValues : MultiSign(v)
    \/ \E k \in 1..MaxFallbacks : \E v \in MultiValues : FallbackSign(k, v)
    \/ \E input \in MultiInputs : MultiPresent(input)
    \/ \E T \in Targets : MultiUnsign(T)

SpecMulti == InitMulti /\ [][NextMulti]_vars

\* ------------------------------------------------------------------------
\* The properties
\* ------------------------------------------------------------------------

Chars(s) == {s[k] : k \in 1..Len(s)}

\* C1: untimed round trip.  On every signer (every secret key, salt,
\* algorithm and separator), Signer::unsign of the token Signer::sign made of
\* a value v returns Ok(v), for every v, the empty string and the values
\* that contain the separator included.
C1_RoundTrip ==
    (called = "unsign" /\ origin.kind = "sign")
        => result = Outcome("ok", "", origin.value, <<>>, <<>>)

C1_Witness ==
    /\ called = "unsign"
    /\ origin.kind = "sign"
    /\ signer.alg = "HMAC"
    /\ builder.secret_key = STR_world
    /\ builder.salt = STR_salt
    /\ signer.seperator # ch_dot
    /\ signer.seperator \in Chars(origin.value)
    /\ result.kind = "ok"

\* C2: tamper detection.  For every token an HMAC Signer::sign made, with
\* one char of its value portion or of its signature portion replaced by a
\* different char (the last char of the signature and a replacement by the
\* separator included), Signer::unsign returns Err(SignatureMismatch).
C2_TamperDetected ==
    (/\ called = "unsign"
     /\ origin.kind = "tampered"
     /\ signer.alg = "HMAC"
     /\ origin.pos # Len(origin.value) + 1)
        => (result.kind = "err" /\ result.variant = "SignatureMismatch")

C2_Witness ==
    /\ called = "unsign"
    /\ origin.kind = "tampered"
    /\ signer.alg = "HMAC"
    /\ origin.pos = Len(token)
    /\ Len(token) = Len(origin.value) + 1 + OutputSize(Sha1OutputSize)
    /\ result.variant = "SignatureMismatch"

\* C3: timed round trip.  For every separator Separator::new accepts, every
\* value v and every whole second ts at or after the legacy epoch,
\* TimestampSigner::unsign of sign_with_timestamp(v, ts) returns an
\* UnsignedValue with value v and timestamp ts.
C3_TimedRoundTrip ==
    (/\ called = "timed_unsign"
     /\ origin.kind = "timed"
     /\ ~BytesLess(origin.timestamp, U64(LEGACY_EPOCH)))
        => result = Outcome("ok", "", origin.value, <<>>, origin.timestamp)

\* The bytes an HMAC signer of this separator feeds to the MAC for (value, secs).
MacInputOf(value, secs) ==
    timed_mac_input([signer EXCEPT !.alg = "HMAC"], value,
                    timestamp_encode(secs, overflow_checks).value).data

\* C5: timestamp binding.  The MAC input of a timed token is one-to-one in
\* (value, second), and a token recombined from the value, timestamp and
\* signature of two timed tokens of an HMAC signer with different (value,
\* second) is rejected by TimestampSigner::unsign with SignatureMismatch.
C5_TimestampBinding ==
    (origin.kind = "splice" /\ signer.alg = "HMAC")
        => /\ MacInputOf(origin.value, origin.timestamp)
                # MacInputOf(origin.value2, origin.timestamp2)
           /\ called = "timed_unsign"
                => (result.kind = "err" /\ result.variant = "SignatureMismatch")

\* What holds of the two: the timed round trip on the separators that are
\* one byte of UTF-8, and the rejection of every recombined token.
TimedRoundTripAscii ==
    (/\ called = "timed_unsign"
     /\ origin.kind = "timed"
     /\ IsAscii(<<signer.seperator>>)
     /\ ~BytesLess(origin.timestamp, U64(LEGACY_EPOCH)))
        => result = Outcome("ok", "", origin.value, <<>>, origin.timestamp)

RecombinedRejected ==
    (origin.kind = "splice" /\ signer.alg = "HMAC" /\ called = "timed_unsign")
        => (result.kind = "err" /\ result.variant = "SignatureMismatch")

\* The two sides of the last separator of the token, and what the decoding
\* of the right side into a signature of the algorithm's size gives.
Sides == split(signer.seperator, token)
SignatureSide == decode(AsBytes(Sides.second), AlgOutputSize(signer.alg))

\* C4: for every input that contains the separator and whose part after
\* the last separator fails to decode, or decodes to fewer or to more bytes
\* than the signature of HMAC-SHA1 has, Signer::unsign of an HMAC signer returns
\* Err(SignatureMismatch{signature, value}) with the two sides of the
\* separator: no panic and no other variant.
C4_UndecodableIsMismatch ==
    (/\ called = "unsign"
     /\ signer.alg = "HMAC"
     /\ Sides.found
     /\ \/ SignatureSide.kind # "ok"
        \/ Len(SignatureSide.bytes) # AlgOutputSize(signer.alg))
        => result = Outcome("err", "SignatureMismatch", Sides.first, Sides.second, <<>>)

\* The chars of the base64 URL-safe alphabet and the padding char.
AlphabetChars == (97..122) \cup (65..90) \cup (48..57) \cup {ch_dash, ch_under, ch_eq}

\* C6: separator safety.  Separator::new(c) is Err(InvalidSeparator(c)) for
\* every c of a-z, A-Z, 0-9, '-', '_', '=' and Ok for every other char; the
\* default separator is outside the alphabet, and the separator of a signer
\* is no symbol the encoder emits, so none occurs in an encoded signature.
C6_SeparatorSafety ==
    /\ sepResult.kind # "none" =>
          LET c == sepResult.value[1]
          IN  IF c \in AlphabetChars
              THEN sepResult = Outcome("err", "InvalidSeparator", <<c>>, <<>>, <<>>)
              ELSE /\ sepResult = Outcome("ok", "", <<c>>, <<>>, <<>>)
                   /\ \A k \in 0..63 : B64Char(k) # c
    /\ builder.seperator \notin AlphabetChars
    /\ \A k \in 0..63 : B64Char(k) # builder.seperator
    /\ origin.kind = "sign" =>
          signer.seperator \notin
              Chars(SubSeq(token, Len(origin.value) + 2, Len(token)))

C6_Witness ==
    /\ sepResult = Outcome("err", "InvalidSeparator", <<ch_eq>>, <<>>, <<>>)
    /\ builder.seperator = 321

\* C7: Signer::unsign splits at the last separator.  It returns
\* Err(SeparatorNotFound) exactly when the input holds no separator;
\* otherwise the value it goes by is all before the last separator and the
\* signature all after it, an Ok carries exactly that prefix (the input is
\* value + separator + signature), and the input is as it was.
C7_SplitsAtLast ==
    called = "unsign" =>
        /\ (result.kind = "err" /\ result.variant = "SeparatorNotFound")
              <=> signer.seperator \notin Chars(token)
        /\ signer.seperator \in Chars(token) =>
              LET last == CHOOSE k \in 1..Len(token) :
                              /\ token[k] = signer.seperator
                              /\ \A j \in (k + 1)..Len(token) : token[j] # signer.seperator
                  before == SubSeq(token, 1, last - 1)
                  after == SubSeq(token, last + 1, Len(token))
              IN  /\ result.kind = "ok" =>
                        /\ result.value = before
                        /\ token = result.value \o <<signer.seperator>> \o after
                  /\ result.kind = "err" =>
                        /\ result.value = before
                        /\ result.signature = after
        /\ origin.kind = "sign" => token = sign(signer, origin.value)

C7_Witness ==
    /\ called = "unsign"
    /\ result.kind = "ok"
    /\ signer.seperator \in Chars(result.value)
    /\ signer.alg = "HMAC"

\* C8: on a default signer (HMAC-SHA1, separator '.'), Signer::unsign
\* returns an Err and does not panic for the empty input, for "fish", for
\* ".", for "w." and for ".w".
C8_EdgeCases ==
    (/\ called = "unsign"
     /\ signer.alg = "HMAC"
     /\ signer.seperator = ch_dot
     /\ builder.salt = DEFAULT_SALT
     /\ token \in {<<>>, STR_fish, <<ch_dot>>, <<119, ch_dot>>, <<ch_dot, 119>>})
        => result.kind = "err"

C8_Witness ==
    /\ called = "unsign"
    /\ signer.alg = "HMAC"
    /\ signer.seperator = ch_dot
    /\ builder.salt = DEFAULT_SALT
    /\ token = <<ch_dot, 119>>
    /\ result.variant = "SignatureMismatch"

\* The payload the inner Signer signed, split as TimestampSigner::split does.
PayloadSides == split(signer.seperator, origin.value)

\* C9: the errors of TimestampSigner::unsign.  An input with no separator
\* gives SeparatorNotFound; one whose outer signature does not verify gives
\* SignatureMismatch with the fields of the Signer's error; one whose
\* signature verifies and whose payload holds no further separator gives
\* TimestampMissing{value = payload}; one whose signature verifies and whose
\* timestamp segment does not decode gives TimestampInvalid{timestamp = segment}.
C9_ErrorTaxonomy ==
    called = "timed_unsign" =>
        /\ ~Sides.found =>
              result = Outcome("err", "SeparatorNotFound", <<signer.seperator>>, <<>>, <<>>)
        /\ (/\ Sides.found
            /\ verify_encoded_signature(signer, AsBytes(Sides.first), AsBytes(Sides.second))
                  = "false") =>
              result = Outcome("err", "SignatureMismatch", Sides.first, Sides.second, <<>>)
        /\ (origin.kind = "payload" /\ ~PayloadSides.found) =>
              result = Outcome("err", "TimestampMissing", origin.value, <<>>, <<>>)
        /\ (/\ origin.kind = "payload"
            /\ PayloadSides.found
            /\ decode(AsBytes(PayloadSides.second), 8).kind # "ok") =>
              result = Outcome("err", "TimestampInvalid", <<>>, <<>>, PayloadSides.second)

\* The whole seconds of a time or duration below 2^32 seconds.
Secs(b) == (b[5] * 16777216) + (b[6] * 65536) + (b[7] * 256) + b[8]

\* What C10 says value_if_not_expired returns for the UnsignedValue in `result`.
ExpectedAt(max_age) ==
    IF Secs(now) >= Secs(result.timestamp)
          /\ Secs(now) - Secs(result.timestamp) > Secs(max_age)
    THEN [Outcome("err", "TimestampExpired", result.value, <<>>, result.timestamp)
            EXCEPT !.max_age = max_age]
    ELSE Outcome("ok", "", result.value, <<>>, <<>>)

\* C10: the expiry boundary.  For an UnsignedValue with timestamp T0 and a
\* max_age, value_if_not_expired returns Ok(value) when now - T0 <= max_age,
\* the TimestampExpired error with (T0, max_age, value) when now - T0 >
\* max_age, and Ok(value) when T0 is later than now; and so does
\* UnsignedTimedSerializerValue::value_if_not_expired.
C10_ExpiryBoundary ==
    expiry # NoExpiry =>
        /\ expiry.signer = ExpectedAt(expiry.max_age)
        /\ expiry.serializer = ExpectedAt(expiry.max_age)

C10_Witness ==
    /\ expiry # NoExpiry
    /\ Secs(expiry.max_age) = 60
    /\ Secs(now) - Secs(result.timestamp) = 60
    /\ expiry.signer.kind = "ok"
    /\ expiry.serializer.kind = "ok"

\* C11: the timestamp codec round trip.  For every timestamp ts of whole
\* seconds from the legacy epoch up to the last second a SystemTime holds,
\* timestamp::decode(timestamp::encode(ts)) is Ok(ts); the encoding of the
\* legacy epoch itself is the empty string.
C11_TimestampRoundTrip ==
    (/\ origin.kind = "timestamp"
     /\ ~BytesLess(origin.timestamp, U64(LEGACY_EPOCH)))
        => /\ called = "timestamp_encode" =>
                 /\ result.kind = "ok"
                 /\ (origin.timestamp = U64(LEGACY_EPOCH)) => token = <<>>
           /\ called = "timestamp_decode" =>
                 result = Outcome("ok", "", <<>>, <<>>, origin.timestamp)

C11_Witness ==
    /\ origin.kind = "timestamp"
    /\ origin.timestamp = U64(LEGACY_EPOCH)
    /\ token = <<>>
    /\ called = "timestamp_decode"
    /\ result.kind = "ok"

\* What a segment decodes to when the buffer is large enough.
SegmentDecoded == decode(AsBytes(token), MaxBytes)
SegmentValue ==
    [k \in 1..(8 - Len(SegmentDecoded.bytes)) |-> 0] \o SegmentDecoded.bytes
SegmentSum == AddBytes(SegmentValue, U64(LEGACY_EPOCH), 0)

\* C12: for every base64 string that decodes to at most 8 bytes,
\* timestamp::decode returns Ok(UNIX_EPOCH + (big-endian value + 1293840000)
\* seconds), the sum taken without wrap-around, or Err(TimestampInvalid);
\* when the sum exceeds the u64 range it is TimestampInvalid, never a wrapped
\* timestamp and never a panic; and a segment that decodes to more than 8
\* bytes gives TimestampInvalid.
C12_DecodeOverflow ==
    (called = "timestamp_decode" /\ SegmentDecoded.kind = "ok") =>
        LET invalid == Outcome("err", "TimestampInvalid", <<>>, <<>>, token)
        IN  IF Len(SegmentDecoded.bytes) > 8 THEN result = invalid
            ELSE IF SegmentSum.carry = 1 THEN result = invalid
            ELSE \/ result = invalid
                 \/ result = Outcome("ok", "", <<>>, <<>>, SegmentSum.bytes)

\* What holds of C12: the decode of a segment of at most 8 bytes whose sum
\* stays in the u64 range.
DecodeInRange ==
    (/\ called = "timestamp_decode"
     /\ SegmentDecoded.kind = "ok"
     /\ Len(SegmentDecoded.bytes) <= 8
     /\ SegmentSum.carry = 0) =>
        \/ result = Outcome("err", "TimestampInvalid", <<>>, <<>>, token)
        \/ result = Outcome("ok", "", <<>>, <<>>, SegmentSum.bytes)

\* C13: the base64 size law.  For every length N up to MaxBytes, the
\* unpadded URL-safe encoding of N bytes has floor(N/3)*4 + (N mod 3) +
\* min(N mod 3, 1) chars, the type-level OutputSize is that number (1->2,
\* 2->3, 3->4, 8->11, 20->27), and the decoding of the encoding into an
\* N-byte buffer is the N bytes.
C13_SizeLaw ==
    origin.kind = "bytes" =>
        LET n == Len(origin.value)
            size == ((n \div 3) * 4) + (n % 3) + (IF n % 3 = 0 THEN 0 ELSE 1)
        IN  /\ result.kind = "ok"
            /\ Len(token) = size
            /\ token = encode(origin.value)
            /\ OutputSize(n) = size
            /\ n = 1 => size = 2
            /\ n = 2 => size = 3
            /\ n = 3 => size = 4
            /\ n = 8 => size = 11
            /\ n = 20 => size = 27
            /\ called = "decode" => result = Outcome("ok", "", origin.value, <<>>, <<>>)

C13_Witness ==
    /\ origin.kind = "bytes"
    /\ Len(origin.value) = MaxBytes
    /\ origin.value[1] = 255
    /\ called = "decode"
    /\ result.kind = "ok"

\* C14: MultiSerializer::sign uses the primary only.  For every value and
\* every list of fallbacks, of any length and order, the token is the one
\* the primary serializer's sign returns, and no fallback is invoked.
C14_SignUsesPrimary ==
    (phase = "multi" /\ called = "sign") =>
        /\ token = Serializer_sign(multi.primary, origin.value)
        /\ result = Outcome("ok", "", token, <<>>, <<>>)
        /\ calls = <<0>>

C14_Witness ==
    /\ phase = "multi"
    /\ called = "sign"
    /\ Len(multi.fallbacks) = MaxFallbacks
    /\ multi.fallbacks[1] # multi.fallbacks[2]
    /\ \A k \in 1..MaxFallbacks : multi.fallbacks[k] # multi.primary
    /\ calls = <<0>>

\* The requested type and the primary's own answer of the last unsign.
Unsigned == phase = "multi" /\ called \in UnsignCalls
PrimaryOutcome == Serializer_unsign(multi.primary, TargetOf(called), token)
UpTo(k) == [i \in 1..k |-> i]

\* The first fallback, in add_fallback order, that parses the framing and
\* verifies the signature; 0 if none does.
FirstVerifying ==
    LET ks == {k \in 1..Len(multi.fallbacks) :
                  unsign(multi.fallbacks[k].signer, token).kind = "ok"}
    IN  IF ks = {} THEN 0 ELSE SetMin(ks)

\* The first fallback whose unsign_to_string returns a string; 0 if none.
FirstDecoding ==
    LET ks == {k \in 1..Len(multi.fallbacks) :
                  unsign_to_string(multi.fallbacks[k], token).kind = "ok"}
    IN  IF ks = {} THEN 0 ELSE SetMin(ks)

\* C15: when the primary fails, the fallbacks are tried in add_fallback
\* order and the attempt stops at the first fallback that parses the
\* framing and verifies the signature: that fallback alone determines the
\* result, no later fallback is consulted, and a token signed by a
\* registered fallback, asked for as the type signed, unsigns to its value.
C15_FallbackOrder ==
    (Unsigned /\ PrimaryOutcome.kind = "err") =>
        LET k == FirstVerifying
            alone == [multi EXCEPT !.fallbacks = <<multi.fallbacks[k]>>]
        IN  IF k = 0 THEN calls = <<0>> \o UpTo(Len(multi.fallbacks))
            ELSE /\ calls = <<0>> \o UpTo(k)
                 /\ result = MultiSerializer_unsign(alone, TargetOf(called), token).result
                 /\ (/\ origin.kind = "fallback.sign"
                     /\ multi.fallbacks[origin.pos] = multi.fallbacks[k]
                     /\ origin.value.type = TargetOf(called))
                        => result = Outcome("ok", "", origin.value, <<>>, <<>>)

\* What holds of C15: the attempt stops at the first fallback whose
\* unsign_to_string returns a string.
FallbackOrderDecoded ==
    (Unsigned /\ PrimaryOutcome.kind = "err") =>
        LET k == FirstDecoding
            parsed == from_str(TargetOf(called),
                               unsign_to_string(multi.fallbacks[k], token).value)
        IN  IF k = 0 THEN /\ calls = <<0>> \o UpTo(Len(multi.fallbacks))
                          /\ result = PrimaryOutcome
            ELSE /\ calls = <<0>> \o UpTo(k)
                 /\ result = IF parsed.ok THEN Outcome("ok", "", parsed.value, <<>>, <<>>)
                              ELSE PayloadInvalid(token, "Serde")

\* C16: when neither the primary nor any fallback succeeds, the error
\* returned is the error the primary produced, same variant and fields.
C16_PrimaryError ==
    (Unsigned /\ result.kind = "err") => result = PrimaryOutcome

\* What holds of C16: when no fallback's unsign_to_string returns a string.
PrimaryErrorUndecoded ==
    (Unsigned /\ result.kind = "err" /\ FirstDecoding = 0) => result = PrimaryOutcome

\* C17: a token the primary's sign made never triggers a fallback attempt:
\* for every requested type, unsign invokes the primary and no fallback.
C17_NoFallbackAttempt ==
    (Unsigned /\ origin.kind = "multi.sign") => calls = <<0>>

\* What holds of C17: when the type requested is the type signed.
NoFallbackForTypeSigned ==
    (Unsigned /\ origin.kind = "multi.sign" /\ origin.value.type = TargetOf(called))
        => /\ calls = <<0>>
           /\ result = Outcome("ok", "", origin.value, <<>>, <<>>)

\* The other signer was built from the first signer's builder with another
\* salt, or with another secret key.
OtherSalted ==
    \E salt \in Salts :
        salt # builder.salt /\ other = build([builder EXCEPT !.salt = salt])
OtherKeyed ==
    \E secret_key \in NamespaceKeys :
        /\ secret_key # builder.secret_key
        /\ other = build([builder EXCEPT !.secret_key = secret_key])

\* What Signer::unsign returns for a token of a signer that holds another key.
Rejected ==
    LET sp == split(signer.seperator, token)
    IN  /\ sp.first = origin.value
        /\ result = Outcome("err", "SignatureMismatch", sp.first, sp.second, <<>>)

\* C18: salt and key namespacing.  For each key derivation (Concat,
\* DjangoConcat, Hmac), a signer built with another salt and the same secret
\* key holds another derived key and rejects the first signer's tokens with
\* SignatureMismatch; so does a signer built from another secret key with
\* the same salt.
C18_SaltNamespacing ==
    (phase = "signer" /\ (OtherSalted \/ OtherKeyed)) =>
        /\ other.derived_key # signer.derived_key
        /\ called = "other.unsign" => Rejected

\* What holds of C18: the salt half for every derivation, and the key half
\* for secret keys that differ in more than trailing NUL bytes under Hmac.
NamespacingButNul ==
    (phase = "signer" /\ other # NoSigner) =>
        LET nul == /\ builder.kd = "Hmac"
                   /\ other.derived_key = signer.derived_key
                   /\ OtherKeyed
        IN  IF nul THEN called = "other.unsign" =>
                            result = Outcome("ok", "", origin.value, <<>>, <<>>)
            ELSE /\ other.derived_key # signer.derived_key
                 /\ called = "other.unsign" => Rejected

\* What a call returns when it runs alone on the shared objects.
Alone(op, arg) ==
    IF op = "sign" THEN Outcome("ok", "", sign(signer, arg.value), <<>>, <<>>)
    ELSE IF op = "unsign" THEN unsign(signer, arg.input)
    ELSE IF op = "sign_with_timestamp"
    THEN sign_with_timestamp(signer, arg.value, arg.secs, overflow_checks)
    ELSE IF op = "multi.sign" THEN MultiSerializer_sign(multi, arg.value).result
    ELSE MultiSerializer_unsign(multi, arg.T, arg.input).result

\* C19: under any interleaving of sign, unsign and sign_with_timestamp
\* calls by several threads on one shared Signer, TimestampSigner or
\* MultiSerializer, every call returns the result it returns when run
\* alone, and the derived key, the separator and the fallback list are the
\* same before and after every step of every call.
C19_CallsIsolated ==
    /\ [](phase = "shared" =>
             \A t \in 1..ThreadCount :
                 threads[t].pc = "returned" =>
                     threads[t].ret = Alone(threads[t].op, threads[t].arg))
    /\ [][phase = "shared" => (signer' = signer /\ multi' = multi)]_vars

C19_Witness ==
    /\ phase = "shared"
    /\ threads[1].pc = "returned"
    /\ threads[2].pc = "stepped"
    /\ threads[1].op = "unsign"
    /\ threads[2].op = "unsign"
    /\ threads[1].arg # threads[2].arg
    /\ threads[1].ret.kind = "ok"

\* The type asked for is the type signed.
AsSigned == called = UnsignCall(origin.value.type)

\* C20: the serializer round trips.  For NullEncoding and URLSafeEncoding,
\* Encoding::decode(Encoding::encode(s)) is Ok(s) for every string s; for
\* every value v, Serializer::unsign(Serializer::sign(v)) is Ok(v); and
\* TimedSerializer::unsign of sign_with_timestamp(v, ts) has value v and
\* timestamp ts.
C20_SerializerRoundTrip ==
    phase = "serializer" =>
        /\ (origin.kind = "string" /\ called = "decode")
               => result = Outcome("ok", "", origin.value, <<>>, <<>>)
        /\ (origin.kind = "serializer.sign" /\ AsSigned)
               => result = Outcome("ok", "", origin.value, <<>>, <<>>)
        /\ (origin.kind = "timed.sign" /\ called = "sign_with_timestamp")
               => result.kind = "ok"
        /\ (origin.kind = "timed.sign" /\ AsSigned)
               => result = Outcome("ok", "", origin.value, <<>>, origin.timestamp)

\* What holds of C20: both encodings and the plain serializer round-trip on
\* every signer; the timed serializer does for a separator of one byte and
\* a timestamp not before the legacy epoch.
SerializerRoundTripAscii ==
    phase = "serializer" =>
        LET timed == /\ serializer.signer.seperator < 128
                     /\ ~BytesLess(origin.timestamp, U64(LEGACY_EPOCH))
        IN  /\ (origin.kind = "string" /\ called = "decode")
                   => result = Outcome("ok", "", origin.value, <<>>, <<>>)
            /\ (origin.kind = "serializer.sign" /\ AsSigned)
                   => result = Outcome("ok", "", origin.value, <<>>, <<>>)
            /\ (origin.kind = "timed.sign" /\ called = "sign_with_timestamp" /\ timed)
                   => result.kind = "ok"
            /\ (origin.kind = "timed.sign" /\ AsSigned /\ timed)
                   => result = Outcome("ok", "", origin.value, <<>>, origin.timestamp)


\* ------------------------------------------------------------------------
\* C21  Deferred verification agrees with direct unsigning: from_str with
\*      the separator of the signer, followed by verify with the serializer's signer returns Ok(x) if and
\*      only if the serializer's unsign of the same token returns Ok(x), and
\*      verify returns Err(SignatureMismatch) whenever the key of the signer
\*      is not the key the token was signed with.
\* ------------------------------------------------------------------------
Direct == Serializer_unsign(serializer, unverified.T, token)
KeyMismatch ==
    \/ origin.kind = "raw"
    \/ Issuer(origin.keep).derived_key # other.derived_key

C21_DeferredAgrees ==
    (phase = "unverified" /\ unverified.separator = serializer.signer.seperator) =>
        /\ (called = "from_str" /\ unverified.result.kind # "ok") => Direct.kind # "ok"
        /\ (called = "verify" /\ other = serializer.signer) =>
               /\ result.kind = "ok" <=> Direct.kind = "ok"
               /\ result.kind = "ok" => result.value = Direct.value
        /\ (called = "verify" /\ KeyMismatch) =>
               result.kind = "err" /\ result.variant = "SignatureMismatch"

\* What holds: with the separator of the signer the two return Ok and
\* panic on the same tokens, and a token of another key whose signature
\* fits the array it is decoded into is a SignatureMismatch.
DeferredAgreesDecodable ==
    (phase = "unverified" /\ unverified.separator = serializer.signer.seperator) =>
        /\ (called = "from_str" /\ unverified.result.kind # "ok") => Direct.kind # "ok"
        /\ (called = "verify" /\ other = serializer.signer) =>
               /\ result.kind = "ok" <=> Direct.kind = "ok"
               /\ result.kind = "ok" => result.value = Direct.value
               /\ result.kind = "panic" <=> Direct.kind = "panic"
        /\ (called = "verify" /\ KeyMismatch /\ Len(unverified.result.unverified_signature) < 28) =>
               result.kind = "err" /\ result.variant = "SignatureMismatch"


\* ------------------------------------------------------------------------
\* C22  Constant-time comparison: whenever unsign compares the decoded
\*      signature with the recomputed one, the comparison reads every pair
\*      of bytes, as many as the signature has, wherever the first pair
\*      that differs is; two mismatching signatures of one size take the
\*      same number of reads.
\* ------------------------------------------------------------------------
Decoded == decode_signature(signer, AsBytes(split(signer.seperator, token).second))
Computed ==
    get_signature(signer.alg, signer.derived_key,
                  AsBytes(split(signer.seperator, token).first))
FirstDiffering == SetMin({k \in 1..Len(Computed) : Decoded.bytes[k] # Computed[k]})

EncodedBytes == decode(AsBytes(token), 8)
Widened(b) == Repeat(0, 8 - Len(b)) \o b
STR_D_AM9g == <<68, 45, 65, 77, 57, 103>>

C23_MinimalEncoding ==
    (/\ phase = "codec"
     /\ called = "timestamp_encode"
     /\ ~BytesLess(origin.timestamp, U64(LEGACY_EPOCH)))
        => /\ result.kind = "ok"
           /\ EncodedBytes.kind = "ok"
           /\ Len(EncodedBytes.bytes) <= 8
           /\ EncodedBytes.bytes # <<>> => EncodedBytes.bytes[1] # 0
           /\ AddBytes(Widened(EncodedBytes.bytes), U64(LEGACY_EPOCH), 0)
                  = [bytes |-> origin.timestamp, carry |-> 0]
           /\ token = encode(EncodedBytes.bytes)
           /\ Len(token) = OutputSize(Len(EncodedBytes.bytes))
           /\ Len(token) <= 11
           /\ \A k \in 1..Len(token) :
                  in_alphabet(token[k]) /\ Separator_new(token[k]).kind = "err"
           /\ origin.timestamp = U64(1560181622) =>
                  token = STR_D_AM9g /\ EncodedBytes.bytes = <<15, 224, 12, 246>>

C23_Witness ==
    /\ phase = "codec"
    /\ called = "timestamp_encode"
    /\ origin.timestamp = U64(1560181622)
    /\ token = STR_D_AM9g


\* ------------------------------------------------------------------------
\* C24  Verification precedes timestamp parsing: TimestampSigner::unsign
\*      returns TimestampMissing or TimestampInvalid only for an input whose
\*      signature is the signer's signature of the payload, and an input
\*      with a separator and any other signature gives SignatureMismatch
\*      whatever its timestamp segment holds.
\* ------------------------------------------------------------------------
SignatureOfPayload ==
    encode(get_signature(signer.alg, signer.derived_key, AsBytes(Sides.first)))
WrongSignature == Sides.found /\ Sides.second # SignatureOfPayload

SignatureFits ==
    decode(AsBytes(Sides.second), AlgOutputSize(signer.alg)).kind # "panic"

C24_VerifiedFirst ==
    (phase = "signer" /\ called = "timed_unsign") =>
        /\ result.variant \in {"TimestampMissing", "TimestampInvalid"} =>
               Sides.found /\ Sides.second = SignatureOfPayload
        /\ WrongSignature =>
               result = Outcome("err", "SignatureMismatch", Sides.first, Sides.second, <<>>)

\* What holds: no timestamp error without the signer's signature, and a
\* wrong signature that fits the array it is decoded into is a
\* SignatureMismatch.
VerifiedFirstDecodable ==
    (phase = "signer" /\ called = "timed_unsign") =>
        /\ result.variant \in {"TimestampMissing", "TimestampInvalid"} =>
               Sides.found /\ Sides.second = SignatureOfPayload
        /\ (WrongSignature /\ SignatureFits) =>
               result = Outcome("err", "SignatureMismatch", Sides.first, Sides.second, <<>>)
        /\ (WrongSignature /\ ~SignatureFits) => result.kind = "panic"


\* ------------------------------------------------------------------------
\* C25  The derived key is computed once, in build, from the secret key and
\*      the salt: no step after build changes the Signer, the signer
\*      as_signer() returns after into_timestamp_signer is the Signer that
\*      was moved (same derived key, same separator), and its unsign
\*      returns for every token what the original Signer returns: Ok for
\*      the tokens the original made.
\* ------------------------------------------------------------------------
SignerKept ==
    phase \in {"signer", "timestamp_signer"} =>
        /\ signer' = signer
        /\ builder' = builder
        /\ phase = "timestamp_signer" => timestamp_signer' = timestamp_signer

C25_KeyDerivedOnce ==
    /\ [](phase \in {"signer", "timestamp_signer"} =>
              signer.derived_key = derive_key(builder.kd, builder.secret_key, builder.salt))
    /\ [](phase = "timestamp_signer" =>
              /\ as_signer(timestamp_signer).derived_key = signer.derived_key
              /\ as_signer(timestamp_signer).seperator = signer.seperator
              /\ called = "as_signer.unsign" =>
                     /\ result = unsign(signer, token)
                     /\ origin.kind = "sign" => result = Outcome("ok", "", origin.value, <<>>, <<>>)
              /\ called = "as_signer.sign" => token = sign(signer, origin.value))
    /\ [][SignerKept]_vars

\* A token the Signer made with a salt of its own, unsigned after the move.
C25_Witness ==
    /\ phase = "timestamp_signer"
    /\ builder.salt # DEFAULT_SALT
    /\ origin.kind = "sign"
    /\ called = "as_signer.unsign"
    /\ result.kind = "ok"


\* ------------------------------------------------------------------------
\* C26  NoneAlgorithm: whatever the key and the inputs, the signature is
\*      the empty byte string and its base64 the empty string;
\*      get_signature(key, value) is get_signer(key).input_chained(value)
\*      .sign(); a Signer of NoneAlgorithm signs v as v + sep, and its
\*      unsign returns Ok exactly for the inputs whose part after the last
\*      separator is empty, with the part before it as the value.
\* ------------------------------------------------------------------------
NoneSigned(inputs) ==
    AlgSign(input_chained(input_chained(AlgNew("None", signer.derived_key), inputs[1]),
                          inputs[2]))

C26_NoneAlgorithm ==
    (phase = "signer" /\ signer.alg = "None") =>
        /\ \A a, b \in {<<>>, AsBytes(token), AsBytes(origin.value)} :
               /\ NoneSigned(<<a, b>>) = <<>>
               /\ encode(NoneSigned(<<a, b>>)) = <<>>
               /\ get_signature("None", signer.derived_key, a)
                      = AlgSign(input_chained(AlgNew("None", signer.derived_key), a))
        /\ origin.kind = "sign" => token = origin.value \o <<signer.seperator>>
        /\ called = "unsign" =>
               /\ result.kind = "ok" <=> (Sides.found /\ Sides.second = <<>>)
               /\ result.kind = "ok" => result.value = Sides.first

\* A string no signer made that ends in the separator is accepted.
C26_Witness ==
    /\ phase = "signer"
    /\ signer.alg = "None"
    /\ origin.kind = "raw"
    /\ token = <<119, signer.seperator>>
    /\ called = "unsign"
    /\ result = Outcome("ok", "", <<119>>, <<>>, <<>>)


\* ------------------------------------------------------------------------
\* C27  Timed signing is untimed signing of the framed payload: for every
\*      separator Separator::new accepts, value v and timestamp ts,
\*      sign_with_timestamp(v, ts) is as_signer().sign(v + sep + encode(ts))
\*      character for character.
\* ------------------------------------------------------------------------
FramedPayload ==
    origin.value \o <<signer.seperator>>
        \o timestamp_encode(origin.timestamp, overflow_checks).value

C27_TimedIsUntimed ==
    (/\ phase = "signer"
     /\ called = "sign_with_timestamp"
     /\ result.kind = "ok")
        => token = sign(signer, FramedPayload)

\* What holds: the two agree for every separator of one UTF-8 byte.
TimedIsUntimedAscii ==
    (/\ phase = "signer"
     /\ called = "sign_with_timestamp"
     /\ result.kind = "ok"
     /\ signer.seperator < 128)
        => token = sign(signer, FramedPayload)


\* ------------------------------------------------------------------------
\* C28  timestamp::encode is total: for a timestamp before the legacy epoch
\*      (and a separator of one byte) sign_with_timestamp returns a token
\*      without panicking, and unsign of that token returns the same
\*      second.
\* ------------------------------------------------------------------------
BeforeLegacyEpoch ==
    /\ phase = "signer"
    /\ origin.kind = "timed"
    /\ BytesLess(origin.timestamp, U64(LEGACY_EPOCH))
    /\ signer.seperator < 128

C28_EncodeTotal ==
    BeforeLegacyEpoch =>
        /\ called = "sign_with_timestamp" => result.kind = "ok"
        /\ called = "timed_unsign" =>
               result = Outcome("ok", "", origin.value, <<>>, origin.timestamp)

\* What holds: in a build without overflow checks the subtraction wraps,
\* the addition of decode wraps back, and the second is recovered; in a
\* build with them the call panics.
EncodeWrapsOrPanics ==
    BeforeLegacyEpoch =>
        /\ called = "sign_with_timestamp" =>
               IF overflow_checks
               THEN result = Panic("attempt to subtract with overflow")
               ELSE result.kind = "ok"
        /\ called = "timed_unsign" =>
               /\ ~overflow_checks
               /\ result = Outcome("ok", "", origin.value, <<>>, origin.timestamp)


\* ------------------------------------------------------------------------
\* C29  Key-derivation input is injective in the pair (secret_key, salt):
\*      for Concat and DjangoConcat two signers built from two different
\*      pairs never hold the same derived key.
\* ------------------------------------------------------------------------
\* The pairs, other than the first signer's, the second signer can have
\* been built from.
SecondPairs ==
    {p \in DeriveKeys \X DeriveSalts :
        /\ p # <<builder.secret_key, builder.salt>>
        /\ other = build([builder EXCEPT !.secret_key = p[1], !.salt = p[2]])}

C29_DerivationInjective ==
    (phase = "signer" /\ other # NoSigner) =>
        \A p \in SecondPairs : other.derived_key # signer.derived_key

\* C29 as amended: two different pairs give different derived keys unless
\* one salt is a proper prefix of the other salt.
ProperPrefix(a, b) == Len(a) < Len(b) /\ SubSeq(b, 1, Len(a)) = a

C29_InjectiveButPrefix ==
    (phase = "signer" /\ other # NoSigner) =>
        \A p \in SecondPairs :
            (~ProperPrefix(p[2], builder.salt) /\ ~ProperPrefix(builder.salt, p[2]))
                => other.derived_key # signer.derived_key

\* Two signers of one secret key and of salts that are no prefix of one
\* another.
C29_Witness ==
    /\ phase = "signer"
    /\ other # NoSigner
    /\ builder.salt = DEFAULT_SALT
    /\ <<builder.secret_key, <<97, 98>>>> \in SecondPairs
    /\ other.derived_key # signer.derived_key


\* ------------------------------------------------------------------------
\* C30  Fallback payload failure is terminal: when the primary fails and
\*      the first fallback whose unsign_to_string returns a string returns
\*      one that does not deserialize into the requested type, unsign
\*      returns PayloadInvalid with the whole input token as its value, no
\*      later fallback is invoked and the primary's error is not returned;
\*      every fallback whose unsign_to_string returns Err is skipped and
\*      the next one is invoked, and when all return Err the primary's error
\*      is returned.
\* ------------------------------------------------------------------------
FallbackString(k) == unsign_to_string(multi.fallbacks[k], token)
SkippedUpTo(k) == \A j \in 1..k : FallbackString(j).kind = "err"
Invoked == {calls[i] : i \in 1..Len(calls)}

C30_FallbackFailureTerminal ==
    (Unsigned /\ PrimaryOutcome.kind = "err") =>
        \A k \in 1..Len(multi.fallbacks) :
            /\ (/\ SkippedUpTo(k - 1)
                /\ FallbackString(k).kind = "ok"
                /\ ~from_str(TargetOf(called), FallbackString(k).value).ok)
                   => /\ result = PayloadInvalid(token, "Serde")
                      /\ result # PrimaryOutcome
                      /\ Invoked = 0..k
            /\ SkippedUpTo(k)
                   => /\ k \in Invoked
                      /\ k < Len(multi.fallbacks) => (k + 1) \in Invoked
                      /\ k = Len(multi.fallbacks) => result = PrimaryOutcome

\* The first fallback verifies the signature and fails to decode the
\* payload, and is skipped; the second returns a string that is not of the
\* requested type, and the call ends there.
C30_Witness ==
    /\ Unsigned
    /\ PrimaryOutcome.kind = "err"
    /\ Len(multi.fallbacks) = 2
    /\ unsign(multi.fallbacks[1].signer, token).kind = "ok"
    /\ FallbackString(1).variant = "PayloadInvalid"
    /\ FallbackString(2).kind = "ok"
    /\ result = PayloadInvalid(token, "Serde")
    /\ calls = <<0, 1, 2>>

====
